---- MODULE Spec2Model ----
(***************************************************************************)
(* A model of PersonalAssistant.py: the generic record collection          *)
(* (BaseBook) instantiated as AddressBook and Notebook, the two record     *)
(* kinds (Contact, Note), the validators, and the command handlers that    *)
(* tie the two collections together.                                       *)
(*                                                                         *)
(* Python values are represented as follows.                               *)
(*   str            a sequence of one-character strings                    *)
(*   list           a sequence; the lists held by a Note (tags,            *)
(*                  contact_ids) are objects of the heap, because          *)
(*                  pin_note and delete_contact change them in place and   *)
(*                  to_dict/from_dict hand the same list object on         *)
(*   date           [k |-> "date", y, m, d]; None is [k |-> "none", ...]   *)
(*   datetime       [sec, us]: whole seconds and microseconds              *)
(*   dict (a book)  data (a function on the keys) and order (the keys in   *)
(*                  insertion order)                                       *)
(*   deque(maxlen)  a sequence, oldest entry first                         *)
(*   an exception   the exc field of the value an operation returns        *)
(*   a JSON file    Nothing when the file does not exist, else Some(doc):  *)
(*                  doc.type tells what json.load makes of the text        *)
(*                  ("object", "array" for any other JSON value, "garbage" *)
(*                  for text that is no JSON), doc.members are the members *)
(*                  [key, value] of an object, a value being a record of   *)
(*                  the fields it has                                      *)
(***************************************************************************)
EXTENDS Integers, Sequences, FiniteSets, TLC

VARIABLES
    abook,    \* the AddressBook
    nbook,    \* the Notebook
    heap,     \* the list objects of the notes: reference |-> elements
    disk,     \* the two JSON files: per file, its content or Nothing
    issued,   \* history: per class, the ids create has returned so far on
              \* the collection (a load of anything but the book as it was
              \* saved starts another collection)
    last,     \* history: the call made last, its arguments and its outcome
    nops      \* the number of calls made

vars == <<abook, nbook, heap, disk, issued, last, nops>>

(***************************************************************************)
(* Constants of the program and bounds of the model.                       *)
(***************************************************************************)
MAX_UNDO_STEPS == 10

\* The largest id a collection hands out in the model.
MaxId == 2

\* The number of calls in one run of the API specification.
MaxOps == 4

\* The number of calls in one run of the specification of long runs.
MaxLogOps == 11

\* The number of calls in a run that fills the undo log and undoes all of it:
\* one call more than the log holds, an undo for each entry held, one more.
MaxDrainOps == 22

\* The number of calls in one run of the specification with save and load.
MaxFileOps == 5

\* The number of calls in one run on files written by others.
MaxLoadOps == 2

\* The number of calls in one run with notes created for contacts.
MaxLinkOps == 4

\* The number of calls in one run with searches.
MaxFindOps == 5

\* The calls of a run that reads the values derived from birthdays.
MaxDayOps == 3

\* The number of calls in one run that saves the address book and loads it
\* back.
MaxReloadOps == 6

\* The number of calls in one run that deletes records and undoes.
MaxRedoOps == 8

\* The number of calls in one run that fills the undo log and empties it.
MaxUndoOps == 20

\* The number of commands in one run of the command loop.
MaxCmds == 4

(***************************************************************************)
(* Strings.                                                                *)
(***************************************************************************)
Digits == {"0", "1", "2", "3", "4", "5", "6", "7", "8", "9"}

NonZeroDigits == Digits \ {"0"}

Whitespace == {" "}

DigitVal(c) ==
    CASE c = "0" -> 0 [] c = "1" -> 1 [] c = "2" -> 2 [] c = "3" -> 3
      [] c = "4" -> 4 [] c = "5" -> 5 [] c = "6" -> 6 [] c = "7" -> 7
      [] c = "8" -> 8 [] c = "9" -> 9

DigitChar(n) ==
    CASE n = 0 -> "0" [] n = 1 -> "1" [] n = 2 -> "2" [] n = 3 -> "3"
      [] n = 4 -> "4" [] n = 5 -> "5" [] n = 6 -> "6" [] n = 7 -> "7"
      [] n = 8 -> "8" [] n = 9 -> "9"

IsDigits(s) == \A i \in 1..Len(s) : s[i] \in Digits

RECURSIVE ToInt(_)
\* int(s) of a string of decimal digits
ToInt(s) ==
    IF s = <<>> THEN 0
    ELSE 10 * ToInt(SubSeq(s, 1, Len(s) - 1)) + DigitVal(s[Len(s)])

RECURSIVE Pad(_, _)
\* n in decimal, zero-filled to w digits (%02d, %04d)
Pad(n, w) ==
    IF w = 0 THEN <<>>
    ELSE Append(Pad(n \div 10, w - 1), DigitChar(n % 10))

RECURSIVE lstrip(_)
lstrip(s) ==
    IF s # <<>> /\ Head(s) \in Whitespace THEN lstrip(Tail(s)) ELSE s

RECURSIVE rstrip(_)
rstrip(s) ==
    IF s # <<>> /\ s[Len(s)] \in Whitespace
    THEN rstrip(SubSeq(s, 1, Len(s) - 1))
    ELSE s

\* str.strip()
strip(s) == rstrip(lstrip(s))

RECURSIVE SplitOn(_, _)
\* s.split(sep) for a one-character separator: the parts between separators
SplitOn(s, sep) ==
    IF \A i \in 1..Len(s) : s[i] # sep THEN <<s>>
    ELSE LET i == CHOOSE k \in 1..Len(s) :
                      s[k] = sep /\ \A j \in 1..(k - 1) : s[j] # sep
         IN  <<SubSeq(s, 1, i - 1)>> \o SplitOn(SubSeq(s, i + 1, Len(s)), sep)

UpperCase ==
    <<"A", "B", "C", "D", "E", "F", "G", "H", "I", "J", "K", "L", "M",
      "N", "O", "P", "Q", "R", "S", "T", "U", "V", "W", "X", "Y", "Z">>

LowerCase ==
    <<"a", "b", "c", "d", "e", "f", "g", "h", "i", "j", "k", "l", "m",
      "n", "o", "p", "q", "r", "s", "t", "u", "v", "w", "x", "y", "z">>

\* c in the other case: c when c is no letter of the alphabet from
CaseMap(c, from, to) ==
    IF \E i \in 1..Len(from) : from[i] = c
    THEN to[CHOOSE i \in 1..Len(from) : from[i] = c]
    ELSE c

\* str.lower()
lower(s) == [i \in 1..Len(s) |-> CaseMap(s[i], UpperCase, LowerCase)]

\* str.capitalize(): the first character in upper case, the rest in lower
capitalize(s) ==
    [i \in 1..Len(s) |-> IF i = 1 THEN CaseMap(s[i], LowerCase, UpperCase)
                         ELSE CaseMap(s[i], UpperCase, LowerCase)]

\* s.strip(chars) for a set of characters
strip_chars(s, chars) ==
    LET keep == {i \in 1..Len(s) : s[i] \notin chars}
    IN  IF keep = {} THEN <<>>
        ELSE SubSeq(s, CHOOSE i \in keep : \A j \in keep : i <= j,
                       CHOOSE i \in keep : \A j \in keep : i >= j)

\* s.lstrip(chars) for a set of characters
lstrip_chars(s, chars) ==
    LET keep == {i \in 1..Len(s) : s[i] \notin chars}
    IN  IF keep = {} THEN <<>>
        ELSE SubSeq(s, CHOOSE i \in keep : \A j \in keep : i <= j, Len(s))

RECURSIVE Runs(_, _)
\* The maximal runs of characters of s that are not in seps, in order: the
\* non-empty parts of re.split(r"[seps]+", s), and s.split() for seps the
\* whitespace.
Runs(s, seps) ==
    LET t == lstrip_chars(s, seps)
    IN  IF t = <<>> THEN <<>>
        ELSE LET stops == {i \in 1..Len(t) : t[i] \in seps}
                 n == IF stops = {} THEN Len(t) + 1
                      ELSE CHOOSE i \in stops : \A j \in stops : i <= j
             IN  <<SubSeq(t, 1, n - 1)>> \o Runs(SubSeq(t, n, Len(t)), seps)

\* str.split() without arguments
split(s) == Runs(s, Whitespace)

RECURSIVE join(_, _)
\* sep.join(parts)
join(parts, sep) ==
    IF parts = <<>> THEN <<>>
    ELSE IF Len(parts) = 1 THEN parts[1]
    ELSE parts[1] \o sep \o join(Tail(parts), sep)

\* q in s, for strings
Contains(q, s) ==
    \E i \in 0..(Len(s) - Len(q)) : SubSeq(s, i + 1, i + Len(q)) = q

\* x in l, for a list
InList(x, l) == \E i \in 1..Len(l) : l[i] = x

\* list.remove(x) on a list that holds x: the first occurrence goes
list_remove(l, x) ==
    LET i == CHOOSE k \in 1..Len(l) : l[k] = x /\ \A j \in 1..(k - 1) : l[j] # x
    IN  SubSeq(l, 1, i - 1) \o SubSeq(l, i + 1, Len(l))

RECURSIVE str_int(_)
\* str(n) for n >= 0
str_int(n) ==
    IF n < 10 THEN <<DigitChar(n)>>
    ELSE Append(str_int(n \div 10), DigitChar(n % 10))

\* str.isdigit()
isdigit(s) == s # <<>> /\ IsDigits(s)

(***************************************************************************)
(* Dates.                                                                  *)
(***************************************************************************)
None == [k |-> "none", y |-> 0, m |-> 0, d |-> 0]

Date(y, m, d) == [k |-> "date", y |-> y, m |-> m, d |-> d]

IsLeap(y) == (y % 4 = 0) /\ ((y % 100 # 0) \/ (y % 400 = 0))

DaysInMonth(y, m) ==
    IF m = 2 THEN (IF IsLeap(y) THEN 29 ELSE 28)
    ELSE IF m \in {4, 6, 9, 11} THEN 30 ELSE 31

\* The directive %d of strptime: 3[0-1]|[1-2]\d|0[1-9]|[1-9]| [1-9]
MatchesDay(p) ==
    \/ Len(p) = 2 /\ p[1] = "3" /\ p[2] \in {"0", "1"}
    \/ Len(p) = 2 /\ p[1] \in {"1", "2"} /\ p[2] \in Digits
    \/ Len(p) = 2 /\ p[1] = "0" /\ p[2] \in NonZeroDigits
    \/ Len(p) = 1 /\ p[1] \in NonZeroDigits
    \/ Len(p) = 2 /\ p[1] = " " /\ p[2] \in NonZeroDigits

\* The directive %m of strptime: 1[0-2]|0[1-9]|[1-9]
MatchesMonth(p) ==
    \/ Len(p) = 2 /\ p[1] = "1" /\ p[2] \in {"0", "1", "2"}
    \/ Len(p) = 2 /\ p[1] = "0" /\ p[2] \in NonZeroDigits
    \/ Len(p) = 1 /\ p[1] \in NonZeroDigits

\* The directive %Y of strptime: \d\d\d\d
MatchesYear(p) == Len(p) = 4 /\ IsDigits(p)

\* The calendar check datetime makes of the parsed numbers.
ValidYMD(y, m, d) == y >= 1 /\ m \in 1..12 /\ d \in 1..DaysInMonth(y, m)

\* datetime.strptime(s, "%d.%m.%Y").date(); None stands for ValueError
strptime_dmy(s) ==
    LET p == SplitOn(s, ".")
    IN  IF Len(p) = 3 /\ MatchesDay(p[1]) /\ MatchesMonth(p[2]) /\ MatchesYear(p[3])
        THEN LET y == ToInt(p[3])
                 m == ToInt(p[2])
                 d == ToInt(lstrip(p[1]))
             IN  IF ValidYMD(y, m, d) THEN Date(y, m, d) ELSE None
        ELSE None

\* datetime.strptime(s, "%Y-%m-%d").date(); None stands for ValueError
strptime_ymd(s) ==
    LET p == SplitOn(s, "-")
    IN  IF Len(p) = 3 /\ MatchesYear(p[1]) /\ MatchesMonth(p[2]) /\ MatchesDay(p[3])
        THEN LET y == ToInt(p[1])
                 m == ToInt(p[2])
                 d == ToInt(lstrip(p[3]))
             IN  IF ValidYMD(y, m, d) THEN Date(y, m, d) ELSE None
        ELSE None

\* parse_birthday: the first of the two formats that parses; None stands
\* for the ValueError raised when neither does
parse_birthday(bday) ==
    LET parsed == strptime_dmy(bday)
    IN  IF parsed # None THEN parsed ELSE strptime_ymd(bday)

\* date.strftime("%Y-%m-%d")
strftime_ymd(dt) == Pad(dt.y, 4) \o <<"-">> \o Pad(dt.m, 2) \o <<"-">> \o Pad(dt.d, 2)

(***************************************************************************)
(* Validators and normalisation.                                           *)
(***************************************************************************)
\* re.fullmatch(r"\+380\d{9}", phone)
IsIntlPhone(phone) ==
    /\ Len(phone) = 13
    /\ SubSeq(phone, 1, 4) = <<"+", "3", "8", "0">>
    /\ IsDigits(SubSeq(phone, 5, 13))

\* re.fullmatch(r"0\d{9}", phone)
IsLocalPhone(phone) ==
    /\ Len(phone) = 10
    /\ phone[1] = "0"
    /\ IsDigits(SubSeq(phone, 2, 10))

\* validate_phone: the canonical form, or "" for a value in neither shape
validate_phone(phone) ==
    IF IsIntlPhone(phone) THEN phone
    ELSE IF IsLocalPhone(phone) THEN <<"+", "3", "8">> \o phone
    ELSE <<>>

\* validate_email: re.fullmatch(r"[^@\s]+@[^@\s]+\.[^@\s]+", email)
validate_email(email) ==
    /\ \A i \in 1..Len(email) : email[i] \notin Whitespace
    /\ \E a \in 1..Len(email) :
          /\ email[a] = "@"
          /\ \A j \in 1..Len(email) : email[j] = "@" => j = a
          /\ a > 1
          /\ \E dot \in (a + 2)..(Len(email) - 1) : email[dot] = "."

\* validate_birthday_format: one of the two formats parses
validate_birthday_format(bday) == parse_birthday(bday) # None

\* normalize_name: the words of the name, each capitalised, joined by one
\* space
normalize_name(name) ==
    LET parts == split(strip(name))
    IN  join([i \in 1..Len(parts) |-> capitalize(parts[i])], <<" ">>)

\* date.strftime("%d.%m.%Y")
strftime_dmy(dt) == Pad(dt.d, 2) \o <<".">> \o Pad(dt.m, 2) \o <<".">> \o Pad(dt.y, 4)

(***************************************************************************)
(* Optional values: <<>> is None, <<v>> is the value v.                    *)
(***************************************************************************)
Some(v) == <<v>>

Nothing == <<>>

\* int(s) for the strings the commands are given: decimal digits with an
\* optional sign; Nothing stands for ValueError
int(s) ==
    IF s # <<>> /\ IsDigits(s) THEN Some(ToInt(s))
    ELSE IF Len(s) > 1 /\ s[1] = "+" /\ IsDigits(Tail(s)) THEN Some(ToInt(Tail(s)))
    ELSE IF Len(s) > 1 /\ s[1] = "-" /\ IsDigits(Tail(s)) THEN Some(0 - ToInt(Tail(s)))
    ELSE Nothing

(***************************************************************************)
(* Results of calls.  exc names the exception that left the call ("" when  *)
(* it returned).                                                           *)
(***************************************************************************)
NoExc == ""

NoObj == [id |-> 0]

(***************************************************************************)
(* Contact.                                                                *)
(***************************************************************************)
\* The birthday attribute when the constructor was given the empty string:
\* __post_init__ leaves a falsy value alone.
EmptyBirthday == [k |-> "empty", y |-> 0, m |-> 0, d |-> 0]

\* Python truth of the birthday attribute
HasBirthday(c) == c.birthday.k = "date"

\* Contact(id, name, phones, emails, birthday) with __post_init__; birthday
\* is an optional string
Contact(id, name, phones, emails, birthday) ==
    LET obj(b) == [id |-> id, name |-> name, phones |-> phones,
                   emails |-> emails, birthday |-> b]
    IN  IF birthday = Nothing THEN [exc |-> NoExc, obj |-> obj(None)]
        ELSE IF birthday[1] = <<>> THEN [exc |-> NoExc, obj |-> obj(EmptyBirthday)]
        ELSE LET parsed == parse_birthday(birthday[1])
             IN  IF parsed = None
                 THEN [exc |-> "ValueError", obj |-> NoObj]
                 ELSE [exc |-> NoExc, obj |-> obj(parsed)]

Contact_to_dict(c) ==
    [id |-> c.id, name |-> c.name, phones |-> c.phones, emails |-> c.emails,
     birthday |-> IF HasBirthday(c) THEN Some(strftime_ymd(c.birthday)) ELSE Nothing]

\* Contact.from_dict: data["id"] and data["name"] raise KeyError when the
\* key is missing, the other keys are read with data.get
Contact_from_dict(data) ==
    IF "id" \notin DOMAIN data \/ "name" \notin DOMAIN data
    THEN [exc |-> "KeyError", obj |-> NoObj]
    ELSE Contact(data.id, data.name,
                 IF "phones" \in DOMAIN data THEN data.phones ELSE <<>>,
                 IF "emails" \in DOMAIN data THEN data.emails ELSE <<>>,
                 IF "birthday" \in DOMAIN data THEN data.birthday ELSE Nothing)

\* Contact.update(**fields): the assignments in the order of the code; the
\* birthday is parsed last, after the other fields were already assigned
Contact_update(c, fields) ==
    LET c1 == IF "name" \in fields.has THEN [c EXCEPT !.name = fields.name] ELSE c
        c2 == IF "phones" \in fields.has THEN [c1 EXCEPT !.phones = fields.phones] ELSE c1
        c3 == IF "emails" \in fields.has THEN [c2 EXCEPT !.emails = fields.emails] ELSE c2
    IN  IF "birthday" \notin fields.has THEN [exc |-> NoExc, obj |-> c3]
        ELSE LET parsed == parse_birthday(fields.birthday)
             IN  IF parsed = None
                 THEN [exc |-> "ValueError", obj |-> c3]
                 ELSE [exc |-> NoExc, obj |-> [c3 EXCEPT !.birthday = parsed]]

\* difflib.SequenceMatcher.find_longest_match without junk: <<i, j, k>> with
\* a[i..i+k-1] = b[j..j+k-1], k the largest possible, then i, then j the
\* least possible; k = 0 when a and b share no character
find_longest_match(a, b) ==
    LET blocks == {m \in (1..Len(a)) \X (1..Len(b)) \X (1..Len(a)) :
                      /\ m[1] + m[3] - 1 <= Len(a)
                      /\ m[2] + m[3] - 1 <= Len(b)
                      /\ SubSeq(a, m[1], m[1] + m[3] - 1)
                             = SubSeq(b, m[2], m[2] + m[3] - 1)}
    IN  IF blocks = {} THEN <<1, 1, 0>>
        ELSE CHOOSE m \in blocks : \A o \in blocks :
                 \/ m[3] > o[3]
                 \/ m[3] = o[3] /\ m[1] < o[1]
                 \/ m[3] = o[3] /\ m[1] = o[1] /\ m[2] <= o[2]

RECURSIVE matching_size(_, _)
\* The total size of SequenceMatcher.get_matching_blocks: the longest
\* match, and the matching blocks to its left and to its right
matching_size(a, b) ==
    LET m == find_longest_match(a, b)
    IN  IF m[3] = 0 THEN 0
        ELSE m[3]
             + matching_size(SubSeq(a, 1, m[1] - 1), SubSeq(b, 1, m[2] - 1))
             + matching_size(SubSeq(a, m[1] + m[3], Len(a)),
                             SubSeq(b, m[2] + m[3], Len(b)))

\* get_close_matches(word, [possibility], n=1, cutoff=0.7) is not empty:
\* SequenceMatcher.ratio() = 2.0 * matches / (len(a) + len(b)) >= 0.7
get_close_matches(word, possibility) ==
    LET total == Len(word) + Len(possibility)
    IN  IF total = 0 THEN TRUE
        ELSE 20 * matching_size(possibility, word) >= 7 * total

\* Contact.matches
Contact_matches(c, query) ==
    LET q == lower(query)
    IN  \/ Contains(q, lower(c.name))
        \/ get_close_matches(q, lower(c.name))
        \/ \E i \in 1..Len(c.phones) : Contains(q, c.phones[i])
        \/ \E i \in 1..Len(c.emails) : Contains(q, lower(c.emails[i]))
        \/ HasBirthday(c) /\ Contains(q, strftime_dmy(c.birthday))

(***************************************************************************)
(* Note.  tags and contact_ids are references to list objects of the heap. *)
(***************************************************************************)
\* The least reference the heap does not use.
NewRef(h) ==
    CHOOSE r \in 1..(Cardinality(DOMAIN h) + 1) :
        r \notin DOMAIN h /\ \A q \in 1..(r - 1) : q \in DOMAIN h

\* A new list object holding the elements of v.
Alloc(h, v) ==
    LET r == NewRef(h)
    IN  [ref |-> r, heap |-> (r :> v) @@ h]

\* datetime.strftime("%Y-%m-%d %H:%M:%S"): the text has no microseconds.
\* The text of the whole seconds stands for the formatted text.
strftime_ts(dt) == Pad(dt.sec, 2)

\* datetime.strptime(s, "%Y-%m-%d %H:%M:%S"); Nothing stands for ValueError
strptime_ts(s) ==
    IF Len(s) = 2 /\ IsDigits(s) THEN Some([sec |-> ToInt(s), us |-> 0]) ELSE Nothing

\* Note(id, text, tags, contact_ids, created_at) with __post_init__
Note(id, text, tags, contact_ids, created_at) ==
    IF strip(text) = <<>> THEN [exc |-> "ValueError", obj |-> NoObj]
    ELSE [exc |-> NoExc,
          obj |-> [id |-> id, text |-> text, tags |-> tags,
                   contact_ids |-> contact_ids, created_at |-> created_at]]

Note_to_dict(n) ==
    [id |-> n.id, text |-> n.text, tags |-> n.tags, contact_ids |-> n.contact_ids,
     created_at |-> strftime_ts(n.created_at)]

\* Note.from_dict; now is the value of datetime.now() taken on entry.  A
\* created_at that is missing, empty or not in the format leaves now; a
\* missing id or text raises KeyError.  data.tags and data.contact_ids are
\* list objects (the default lists of data.get are made by the caller).
Note_from_dict(data, now) ==
    LET created_str == IF "created_at" \in DOMAIN data THEN data.created_at ELSE <<>>
        parsed == strptime_ts(created_str)
        created_dt == IF created_str # <<>> /\ parsed # Nothing
                      THEN parsed[1]
                      ELSE now
    IN  IF "id" \notin DOMAIN data \/ "text" \notin DOMAIN data
        THEN [exc |-> "KeyError", obj |-> NoObj]
        ELSE Note(data.id, data.text, data.tags, data.contact_ids, created_dt)

\* Note.update(**fields): each list given becomes the note's list object
Note_update(n, fields, h) ==
    LET n1 == IF "text" \in fields.has THEN [n EXCEPT !.text = fields.text] ELSE n
        a2 == Alloc(h, fields.tags)
        n2 == IF "tags" \in fields.has THEN [n1 EXCEPT !.tags = a2.ref] ELSE n1
        h2 == IF "tags" \in fields.has THEN a2.heap ELSE h
        a3 == Alloc(h2, fields.contact_ids)
        n3 == IF "contact_ids" \in fields.has THEN [n2 EXCEPT !.contact_ids = a3.ref] ELSE n2
        h3 == IF "contact_ids" \in fields.has THEN a3.heap ELSE h2
    IN  [exc |-> NoExc, obj |-> n3, heap |-> h3]

\* The field values of a note, its lists read from the heap.
NoteVal(n, h) ==
    [id |-> n.id, text |-> n.text, tags |-> h[n.tags],
     contact_ids |-> h[n.contact_ids], created_at |-> n.created_at]

(***************************************************************************)
(* BaseBook: the generic collection.  cls is the entry class of the book   *)
(* ("Contact" for AddressBook, "Note" for Notebook).                       *)
(***************************************************************************)
\* BaseBook.__init__
EmptyBook == [data |-> <<>>, order |-> <<>>, undo_stack |-> <<>>, max_id |-> 0]

Max(a, b) == IF a >= b THEN a ELSE b

\* self.data[k] = v: a new key goes to the end of the dict's order
dict_set(book, k, v) ==
    [book EXCEPT !.data = (k :> v) @@ book.data,
                 !.order = IF k \in DOMAIN book.data THEN book.order
                           ELSE Append(book.order, k)]

\* del self.data[k]
dict_del(book, k) ==
    [book EXCEPT !.data = [j \in (DOMAIN book.data) \ {k} |-> book.data[j]],
                 !.order = SelectSeq(book.order, LAMBDA j : j # k)]

\* a deque that drops its newest entry when full
deque_append_drop_newest(stack, e) ==
    IF Len(stack) >= MAX_UNDO_STEPS
    THEN Append(SubSeq(stack, 1, Len(stack) - 1), e)
    ELSE Append(stack, e)

\* deque(maxlen=MAX_UNDO_STEPS).append: a full deque drops its oldest entry
deque_append(stack, e) ==
    IF Len(stack) >= MAX_UNDO_STEPS THEN Append(Tail(stack), e)
    ELSE Append(stack, e)

UndoEntry(action, id, old) == [action |-> action, id |-> id, old |-> old]

entry_to_dict(cls, e) ==
    IF cls = "Contact" THEN Contact_to_dict(e) ELSE Note_to_dict(e)

entry_from_dict(cls, data, now) ==
    IF cls = "Contact" THEN Contact_from_dict(data) ELSE Note_from_dict(data, now)

entry_update(cls, e, fields, h) ==
    IF cls = "Contact"
    THEN LET u == Contact_update(e, fields)
         IN  [exc |-> u.exc, obj |-> u.obj, heap |-> h]
    ELSE Note_update(e, fields, h)

\* add with the id taken from the number of entries held
add_count_ids(book, entry) ==
    LET id  == IF entry.id = 0 THEN Len(book.order) + 1 ELSE entry.id
        b1  == [book EXCEPT !.max_id = Max(book.max_id, id)]
        b2  == [b1 EXCEPT !.undo_stack =
                              deque_append(b1.undo_stack, UndoEntry("add", id, NoObj))]
        b3  == dict_set(b2, id, [entry EXCEPT !.id = id])
    IN  [book |-> b3, ret |-> id]

\* add that does not raise _max_id
add_keep_max(book, entry) ==
    LET id  == IF entry.id = 0 THEN book.max_id + 1 ELSE entry.id
        b2  == [book EXCEPT !.undo_stack =
                              deque_append(book.undo_stack, UndoEntry("add", id, NoObj))]
        b3  == dict_set(b2, id, [entry EXCEPT !.id = id])
    IN  [book |-> b3, ret |-> id]

\* an add that stores the entry without assigning the id it handed out
add_id_unassigned(book, entry) ==
    LET id  == IF entry.id = 0 THEN book.max_id + 1 ELSE entry.id
        b1  == [book EXCEPT !.max_id = Max(book.max_id, id)]
        b2  == [b1 EXCEPT !.undo_stack =
                              deque_append(b1.undo_stack, UndoEntry("add", id, NoObj))]
    IN  [book |-> dict_set(b2, id, entry), ret |-> id]

\* BaseBook.add
add(book, entry) ==
    LET id  == IF entry.id = 0 THEN book.max_id + 1 ELSE entry.id
        b1  == [book EXCEPT !.max_id = Max(book.max_id, id)]
        b2  == [b1 EXCEPT !.undo_stack =
                              deque_append(b1.undo_stack, UndoEntry("add", id, NoObj))]
        b3  == dict_set(b2, id, [entry EXCEPT !.id = id])
    IN  [book |-> b3, ret |-> id]

\* self.entry_class(id=0, **kwargs): the constructor of the book's class.
\* A Contact's phones, emails and birthday and a Note's created_at have
\* defaults; the lists given for a Note become list objects of the heap.
new_entry(cls, h, kwargs, now) ==
    IF cls = "Contact"
    THEN LET r == Contact(0, kwargs.name,
                          IF "phones" \in kwargs.has THEN kwargs.phones ELSE <<>>,
                          IF "emails" \in kwargs.has THEN kwargs.emails ELSE <<>>,
                          IF "birthday" \in kwargs.has THEN Some(kwargs.birthday)
                          ELSE Nothing)
         IN  [exc |-> r.exc, obj |-> r.obj, heap |-> h]
    ELSE LET a1 == Alloc(h, kwargs.tags)
             a2 == Alloc(a1.heap, kwargs.contact_ids)
             r  == Note(0, kwargs.text, a1.ref, a2.ref, now)
         IN  [exc |-> r.exc, obj |-> r.obj, heap |-> IF r.exc = NoExc THEN a2.heap ELSE h]

\* BaseBook.create_and_add
create_and_add(cls, book, h, kwargs, now) ==
    LET e == new_entry(cls, h, kwargs, now)
    IN  IF e.exc # NoExc
        THEN [book |-> book, heap |-> h, exc |-> e.exc, ret |-> 0]
        ELSE LET a == add(book, e.obj)
             IN  [book |-> a.book, heap |-> e.heap, exc |-> NoExc, ret |-> a.ret]

\* BaseBook.find_by_id raises KeyError for an id that is no key
find_by_id_raises(book, id_val) == id_val \notin DOMAIN book.data

\* an edit that logs the call before it looks the entry up
edit_absent_logs(cls, book, h, id_val, changes, now) ==
    LET b0 == [book EXCEPT !.undo_stack =
                   deque_append(book.undo_stack, UndoEntry("edit", id_val, NoObj))]
    IN  IF find_by_id_raises(book, id_val)
        THEN [book |-> b0, heap |-> h, exc |-> "KeyError"]
        ELSE LET old_entry == book.data[id_val]
                 old_copy  == entry_from_dict(cls, entry_to_dict(cls, old_entry), now)
             IN  IF old_copy.exc # NoExc
                 THEN [book |-> book, heap |-> h, exc |-> old_copy.exc]
                 ELSE LET b1 == [book EXCEPT !.undo_stack =
                                    deque_append(book.undo_stack,
                                                 UndoEntry("edit", id_val, old_copy.obj))]
                          u  == entry_update(cls, old_entry, changes, h)
                      IN  [book |-> [b1 EXCEPT !.data[id_val] = u.obj],
                           heap |-> u.heap, exc |-> u.exc]

\* an edit that logs the live entry instead of a copy: the entry of the log
\* is the object the update changes
edit_logs_live(cls, book, h, id_val, changes, now) ==
    IF find_by_id_raises(book, id_val)
    THEN [book |-> book, heap |-> h, exc |-> "KeyError"]
    ELSE LET old_entry == book.data[id_val]
             u  == entry_update(cls, old_entry, changes, h)
             b1 == [book EXCEPT !.undo_stack =
                       deque_append(book.undo_stack,
                                    UndoEntry("edit", id_val, u.obj))]
         IN  [book |-> [b1 EXCEPT !.data[id_val] = u.obj],
              heap |-> u.heap, exc |-> u.exc]

\* BaseBook.edit: look the entry up, copy it through its dict form, log the
\* copy, and only then update the live entry
edit(cls, book, h, id_val, changes, now) ==
    IF find_by_id_raises(book, id_val)
    THEN [book |-> book, heap |-> h, exc |-> "KeyError"]
    ELSE LET old_entry == book.data[id_val]
             old_copy  == entry_from_dict(cls, entry_to_dict(cls, old_entry), now)
         IN  IF old_copy.exc # NoExc
             THEN [book |-> book, heap |-> h, exc |-> old_copy.exc]
             ELSE LET b1 == [book EXCEPT !.undo_stack =
                                deque_append(book.undo_stack,
                                             UndoEntry("edit", id_val, old_copy.obj))]
                      u  == entry_update(cls, old_entry, changes, h)
                  IN  [book |-> [b1 EXCEPT !.data[id_val] = u.obj],
                       heap |-> u.heap, exc |-> u.exc]

\* a delete that logs the entry and leaves it in the map
delete_keeps_entry(book, id_val) ==
    IF id_val \in DOMAIN book.data
    THEN [book |-> [book EXCEPT !.undo_stack =
                        deque_append(book.undo_stack,
                                     UndoEntry("delete", id_val, book.data[id_val]))],
          ret |-> TRUE]
    ELSE [book |-> book, ret |-> FALSE]

\* a delete that removes the entry and logs nothing
delete_unlogged(book, id_val) ==
    IF id_val \in DOMAIN book.data
    THEN [book |-> dict_del(book, id_val), ret |-> TRUE]
    ELSE [book |-> book, ret |-> FALSE]

\* BaseBook.delete
delete(book, id_val) ==
    IF id_val \in DOMAIN book.data
    THEN LET old_entry == book.data[id_val]
             b1 == [book EXCEPT !.undo_stack =
                        deque_append(book.undo_stack,
                                     UndoEntry("delete", id_val, old_entry))]
         IN  [book |-> dict_del(b1, id_val), ret |-> TRUE]
    ELSE [book |-> book, ret |-> FALSE]

\* undo that pops a "delete" entry without putting the entry back
undo_forget_delete(book) ==
    IF book.undo_stack = <<>> THEN [book |-> book, ret |-> "nothing"]
    ELSE LET top == book.undo_stack[Len(book.undo_stack)]
             b1  == [book EXCEPT !.undo_stack =
                         SubSeq(book.undo_stack, 1, Len(book.undo_stack) - 1)]
         IN  IF top.action = "add"
             THEN [book |-> IF top.id \in DOMAIN b1.data THEN dict_del(b1, top.id) ELSE b1,
                   ret |-> "add"]
             ELSE IF top.action = "delete"
             THEN [book |-> b1, ret |-> "delete"]
             ELSE [book |-> dict_set(b1, top.id, top.old), ret |-> "edit"]

\* undo that pops an "add" entry and keeps the entry added
undo_keep_added(book) ==
    IF book.undo_stack = <<>> THEN [book |-> book, ret |-> "nothing"]
    ELSE LET top == book.undo_stack[Len(book.undo_stack)]
             b1  == [book EXCEPT !.undo_stack =
                         SubSeq(book.undo_stack, 1, Len(book.undo_stack) - 1)]
         IN  IF top.action = "add"
             THEN [book |-> b1, ret |-> "add"]
             ELSE [book |-> dict_set(b1, top.id, top.old),
                   ret |-> IF top.action = "delete" THEN "delete" ELSE "edit"]

\* an undo that clears the book when the log is empty
undo_empty_clears(book) ==
    IF book.undo_stack = <<>> THEN [book |-> EmptyBook, ret |-> "nothing"]
    ELSE LET top == book.undo_stack[Len(book.undo_stack)]
             b1  == [book EXCEPT !.undo_stack =
                         SubSeq(book.undo_stack, 1, Len(book.undo_stack) - 1)]
         IN  IF top.action = "add"
             THEN [book |-> IF top.id \in DOMAIN b1.data THEN dict_del(b1, top.id) ELSE b1,
                   ret |-> "add"]
             ELSE [book |-> dict_set(b1, top.id, top.old),
                   ret |-> IF top.action = "delete" THEN "delete" ELSE "edit"]

\* BaseBook.undo; ret names the message returned
undo(book) ==
    IF book.undo_stack = <<>> THEN [book |-> book, ret |-> "nothing"]
    ELSE LET top == book.undo_stack[Len(book.undo_stack)]
             b1  == [book EXCEPT !.undo_stack =
                         SubSeq(book.undo_stack, 1, Len(book.undo_stack) - 1)]
         IN  IF top.action = "add"
             THEN [book |-> IF top.id \in DOMAIN b1.data THEN dict_del(b1, top.id) ELSE b1,
                   ret |-> "add"]
             ELSE IF top.action = "delete"
             THEN [book |-> dict_set(b1, top.id, top.old), ret |-> "delete"]
             ELSE IF top.action = "edit"
             THEN [book |-> dict_set(b1, top.id, top.old), ret |-> "edit"]
             ELSE [book |-> b1, ret |-> "unknown"]

\* The list objects a notebook still refers to: those of its notes and of
\* the notes kept in its undo entries.
Refs(nb) ==
    UNION {{nb.data[k].tags, nb.data[k].contact_ids} : k \in DOMAIN nb.data}
    \cup UNION {{nb.undo_stack[i].old.tags, nb.undo_stack[i].old.contact_ids} :
                  i \in {j \in 1..Len(nb.undo_stack) : nb.undo_stack[j].action # "add"}}

\* The heap without the list objects nothing refers to any more.
Collect(h, nb) == [r \in (DOMAIN h) \cap Refs(nb) |-> h[r]]

\* Note.matches
Note_matches(n, h, query) ==
    LET q == lower(query)
    IN  \/ Contains(q, lower(n.text))
        \/ \E i \in 1..Len(h[n.tags]) : Contains(q, lower(h[n.tags][i]))

\* a find that returns the matching entries in the order of their ids
find_by_key_order(cls, book, h, query) ==
    LET hit == SelectSeq([i \in 1..book.max_id |-> i],
                         LAMBDA k : /\ k \in DOMAIN book.data
                                    /\ IF cls = "Contact"
                                       THEN Contact_matches(book.data[k], query)
                                       ELSE Note_matches(book.data[k], h, query))
    IN  [i \in 1..Len(hit) |-> book.data[hit[i]]]

\* BaseBook.find: the entries that match, in the order of the dict
find(cls, book, h, query) ==
    LET hit == SelectSeq(book.order,
                         LAMBDA k : IF cls = "Contact"
                                    THEN Contact_matches(book.data[k], query)
                                    ELSE Note_matches(book.data[k], h, query))
    IN  [i \in 1..Len(hit) |-> book.data[hit[i]]]

\* What json.dump writes for an entry: its dict, the lists by their elements
json_entry(cls, e, h) ==
    IF cls = "Contact" THEN Contact_to_dict(e)
    ELSE LET data == Note_to_dict(e)
         IN  [data EXCEPT !.tags = h[e.tags], !.contact_ids = h[e.contact_ids]]

\* The documents a file can hold.
JsonObject(members) == [type |-> "object", members |-> members]

JsonArray == [type |-> "array", members |-> <<>>]

NotJson == [type |-> "garbage", members |-> <<>>]

\* BaseBook.save: the file written, one member per entry under str(id)
save(cls, book, h) ==
    Some(JsonObject([i \in 1..Len(book.order) |->
                        [key |-> str_int(book.order[i]),
                         value |-> json_entry(cls, book.data[book.order[i]], h)]]))

\* entry_class.from_dict(v) for a value json.load made: the lists of a note
\* are new list objects (those of the value, or the [] of data.get)
load_entry(cls, value, h, now) ==
    IF cls = "Contact"
    THEN LET r == Contact_from_dict(value)
         IN  [exc |-> r.exc, obj |-> r.obj, heap |-> h]
    ELSE LET a1 == Alloc(h, IF "tags" \in DOMAIN value THEN value.tags ELSE <<>>)
             a2 == Alloc(a1.heap, IF "contact_ids" \in DOMAIN value
                                  THEN value.contact_ids ELSE <<>>)
             r  == Note_from_dict([k \in DOMAIN value \cup {"tags", "contact_ids"} |->
                                      IF k = "tags" THEN a1.ref
                                      ELSE IF k = "contact_ids" THEN a2.ref
                                      ELSE value[k]],
                                  now)
         IN  [exc |-> r.exc, obj |-> r.obj, heap |-> IF r.exc = NoExc THEN a2.heap ELSE h]

\* new_book.data[eid] = entry; new_book._max_id = max(new_book._max_id, eid)
load_put(book, eid, entry) ==
    [dict_set(book, eid, entry) EXCEPT !.max_id = Max(book.max_id, eid)]

\* The loop of BaseBook.load from member i on: int(k) raises ValueError for
\* a key that is no number, from_dict raises what the entry class raises,
\* and neither is caught.
RECURSIVE load_members(_, _, _, _, _, _)

\* member i with the entry from_dict made of its value: stored, then the rest
load_stored(cls, members, i, book, h, now, e) ==
    IF e.exc # NoExc THEN [exc |-> e.exc, book |-> EmptyBook, heap |-> h]
    ELSE load_members(cls, members, i + 1,
                      load_put(book, int(members[i].key)[1], e.obj), e.heap, now)

load_members(cls, members, i, book, h, now) ==
    IF i > Len(members) THEN [exc |-> NoExc, book |-> book, heap |-> h]
    ELSE IF int(members[i].key) = Nothing
    THEN [exc |-> "ValueError", book |-> EmptyBook, heap |-> h]
    ELSE load_stored(cls, members, i, book, h, now,
                     load_entry(cls, members[i].value, h, now))

\* a load that counts a missing file as one id handed out
load_missing_counts(cls, file, h, now) ==
    IF file = Nothing
    THEN [exc |-> NoExc, book |-> [EmptyBook EXCEPT !.max_id = 1], heap |-> h]
    ELSE IF file[1].type = "garbage"
    THEN [exc |-> NoExc, book |-> EmptyBook, heap |-> h]
    ELSE IF file[1].type # "object"
    THEN [exc |-> "AttributeError", book |-> EmptyBook, heap |-> h]
    ELSE load_members(cls, file[1].members, 1, EmptyBook, h, now)

\* BaseBook.load: no file gives a new book; text json.load rejects gives a
\* new book (JSONDecodeError is caught); any other exception leaves load.
\* The clock is read once for all entries.
load(cls, file, h, now) ==
    IF file = Nothing THEN [exc |-> NoExc, book |-> EmptyBook, heap |-> h]
    ELSE IF file[1].type = "garbage"
    THEN [exc |-> NoExc, book |-> EmptyBook, heap |-> h]
    ELSE IF file[1].type # "object"
    THEN [exc |-> "AttributeError", book |-> EmptyBook, heap |-> h]
    ELSE load_members(cls, file[1].members, 1, EmptyBook, h, now)

\* Neither contacts.json nor notes.json exists.
NoFiles == [contacts |-> Nothing, notes |-> Nothing]

\* a find_by_contact_id that stops at the first note it finds
find_by_contact_id_first(nb, h, contact_id) ==
    LET hit == SelectSeq(nb.order,
                         LAMBDA k : InList(contact_id, h[nb.data[k].contact_ids]))
    IN  IF hit = <<>> THEN <<>> ELSE <<nb.data[hit[1]]>>

\* Notebook.find_by_contact_id: the notes whose contact_ids holds the id
find_by_contact_id(nb, h, contact_id) ==
    LET hit == SelectSeq(nb.order,
                         LAMBDA k : InList(contact_id, h[nb.data[k].contact_ids]))
    IN  [i \in 1..Len(hit) |-> nb.data[hit[i]]]

\* a create_note_for_contact that does not look the contact up
create_note_for_contact_unchecked(ab, nb, h, contact_id, text, tags, now) ==
    create_and_add("Note", nb, h,
                   [has |-> {"text", "tags", "contact_ids"}, text |-> text,
                    tags |-> tags, contact_ids |-> <<contact_id>>],
                   now)

\* AddressBook.create_note_for_contact
create_note_for_contact(ab, nb, h, contact_id, text, tags, now) ==
    IF contact_id \notin DOMAIN ab.data
    THEN [book |-> nb, heap |-> h, exc |-> "KeyError", ret |-> 0]
    ELSE create_and_add("Note", nb, h,
                        [has |-> {"text", "tags", "contact_ids"}, text |-> text,
                         tags |-> tags, contact_ids |-> <<contact_id>>],
                        now)

\* Contact.days_to_birthday raises ValueError: birthday.replace(year=...)
\* names 29 February of a year that is not a leap year
days_to_birthday_raises(c, today) ==
    /\ HasBirthday(c)
    /\ c.birthday.m = 2
    /\ c.birthday.d = 29
    /\ \/ ~IsLeap(today.y)
       \/ today.m > 2 /\ ~IsLeap(today.y + 1)

(***************************************************************************)
(* The values the calls are made with.                                     *)
(***************************************************************************)
NameAl == <<"A", "l">>

NameBo == <<"B", "o">>

Blank == <<" ">>

PhoneIntl == <<"+", "3", "8", "0", "5", "0", "1", "2", "3", "4", "5", "6", "7">>

PhoneLocal == <<"0", "5", "0", "1", "2", "3", "4", "5", "6", "7">>

PhoneBad == <<"1", "2", "3">>

EmailOk == <<"a", "@", "b", ".", "c">>

EmailBad == <<"a", "@", "b">>

BdayDmy == <<"2", "4", ".", "0", "8", ".", "1", "9", "9", "1">>

BdayYmd == <<"2", "0", "0", "0", "-", "0", "2", "-", "2", "9">>

BdayBad == <<"2", "4", "-", "0", "8", "-", "1", "9", "9", "1">>

TextHi == <<"h", "i">>

TextYo == <<"y", "o">>

TagT == <<"t">>

Classes == {"Contact", "Note"}

\* Keyword arguments: has names the keywords given.
ContactFields(has, name, phones, emails, birthday) ==
    [has |-> has, name |-> name, phones |-> phones, emails |-> emails,
     birthday |-> birthday]

NoteFields(has, text, tags, contact_ids) ==
    [has |-> has, text |-> text, tags |-> tags, contact_ids |-> contact_ids]

\* The keyword arguments of create_and_add: well-formed ones, and one for
\* each format a field can violate.
CreateKwargs(cls) ==
    IF cls = "Contact"
    THEN {ContactFields({"name", "phones", "birthday"}, NameAl, <<PhoneIntl>>, <<>>, BdayDmy),
          ContactFields({"name", "emails"}, NameBo, <<>>, <<EmailOk>>, <<>>),
          ContactFields({"name"}, Blank, <<>>, <<>>, <<>>),
          ContactFields({"name", "phones"}, NameAl, <<PhoneBad>>, <<>>, <<>>),
          ContactFields({"name", "emails"}, NameAl, <<>>, <<EmailBad>>, <<>>),
          ContactFields({"name", "birthday"}, NameAl, <<>>, <<>>, BdayBad)}
    ELSE {NoteFields({"text", "tags", "contact_ids"}, TextHi, <<TagT>>, <<1>>),
          NoteFields({"text", "tags", "contact_ids"}, TextYo, <<>>, <<>>),
          NoteFields({"text", "tags", "contact_ids"}, Blank, <<>>, <<>>)}

\* The keyword arguments of edit.
EditChanges(cls) ==
    IF cls = "Contact"
    THEN {ContactFields({"name"}, NameBo, <<>>, <<>>, <<>>),
          ContactFields({"phones", "birthday"}, <<>>, <<PhoneIntl>>, <<>>, BdayYmd),
          ContactFields({"name", "birthday"}, NameBo, <<>>, <<>>, BdayBad)}
    ELSE {NoteFields({"text"}, TextYo, <<>>, <<>>),
          NoteFields({"tags"}, <<>>, <<TagT, TagT>>, <<>>),
          NoteFields({"text", "contact_ids"}, Blank, <<>>, <<1, 1>>)}

\* The readings of datetime.now(): with and without microseconds.
NowValues == {[sec |-> 7, us |-> 0], [sec |-> 7, us |-> 5]}

\* Only the Note class reads the clock.
Clock(cls) == IF cls = "Note" THEN NowValues ELSE {[sec |-> 0, us |-> 0]}

(***************************************************************************)
(* The calls of the collection API, made on either book.  Each action is   *)
(* one call; last records the call and what it returned or raised.         *)
(***************************************************************************)
Book(cls) == IF cls = "Contact" THEN abook ELSE nbook

\* The book of class cls after the step.
BookNext(cls) == IF cls = "Contact" THEN abook' ELSE nbook'

\* The field values of the entry stored under id_val (NoObj when absent).
EntryVal(cls, book, h, id_val) ==
    IF id_val \notin DOMAIN book.data THEN NoObj
    ELSE IF cls = "Contact" THEN book.data[id_val]
    ELSE NoteVal(book.data[id_val], h)

\* The id of the newest undo entry (0 when there is none).
TopId(book) ==
    IF book.undo_stack = <<>> THEN 0 ELSE book.undo_stack[Len(book.undo_stack)].id

\* A call without the call before it.
Summary(call) ==
    [op |-> call.op, cls |-> call.cls, id |-> call.id, exc |-> call.exc,
     ok |-> call.ok, msg |-> call.msg, before |-> call.before]

\* The record of a call: op on the book of class cls with the id it was
\* given (or returned), the keyword arguments, the exception raised, the
\* value returned (ok, msg), the field values the entry had before the
\* call, and the call made before this one.
Call(op, cls, id, args, exc, ok, msg, before) ==
    [op |-> op, cls |-> cls, id |-> id, args |-> args, exc |-> exc, ok |-> ok,
     msg |-> msg, before |-> before, prev |-> Summary(last)]

NoCall ==
    [op |-> "init", cls |-> "", id |-> 0, args |-> NoObj, exc |-> NoExc,
     ok |-> TRUE, msg |-> "", before |-> NoObj,
     prev |-> [op |-> "", cls |-> "", id |-> 0, exc |-> NoExc, ok |-> TRUE,
               msg |-> "", before |-> NoObj]]

\* a call on the address book that also empties the notebook's undo log
Commit_shared_log(cls, book, h, call) ==
    /\ abook' = IF cls = "Contact" THEN book ELSE abook
    /\ nbook' = IF cls = "Note" THEN book ELSE [nbook EXCEPT !.undo_stack = <<>>]
    /\ heap' = Collect(h, nbook')
    /\ disk' = disk
    /\ last' = call
    /\ nops' = nops + 1

\* The state after a call on the book of class cls.
Commit(cls, book, h, call) ==
    /\ abook' = IF cls = "Contact" THEN book ELSE abook
    /\ nbook' = IF cls = "Note" THEN book ELSE nbook
    /\ heap' = Collect(h, nbook')
    /\ disk' = disk
    /\ last' = call
    /\ nops' = nops + 1

\* book.create_and_add(**kwargs) with kwargs among inputs
ApiCreate(cls, inputs, limit) ==
    /\ nops < limit
    /\ Book(cls).max_id < MaxId
    /\ \E kwargs \in inputs, now \in Clock(cls) :
          \E r \in {create_and_add(cls, Book(cls), heap, kwargs, now)} :
              /\ Commit(cls, r.book, r.heap,
                        Call("create", cls, r.ret, kwargs, r.exc, r.exc = NoExc, "",
                             NoObj))
              /\ issued' = IF r.exc = NoExc
                           THEN [issued EXCEPT ![cls] = Append(@, r.ret)]
                           ELSE issued

\* book.edit(id_val, **changes) with id_val among ids, changes among inputs
ApiEdit(cls, ids, inputs, limit) ==
    /\ nops < limit
    /\ \E id_val \in ids, changes \in inputs, now \in Clock(cls) :
          \E r \in {edit(cls, Book(cls), heap, id_val, changes, now)} :
              /\ Commit(cls, r.book, r.heap,
                        Call("edit", cls, id_val, changes, r.exc, r.exc = NoExc, "",
                             EntryVal(cls, Book(cls), heap, id_val)))
              /\ UNCHANGED issued

\* book.delete(id_val)
ApiDelete(cls, ids, limit) ==
    /\ nops < limit
    /\ \E id_val \in ids :
          \E r \in {delete(Book(cls), id_val)} :
              /\ Commit(cls, r.book, heap,
                        Call("delete", cls, id_val, NoObj, NoExc, r.ret, "",
                             EntryVal(cls, Book(cls), heap, id_val)))
              /\ UNCHANGED issued

\* book.undo()
ApiUndo(cls, limit) ==
    /\ nops < limit
    /\ \E r \in {undo(Book(cls))} :
          /\ Commit(cls, r.book, heap,
                    Call("undo", cls, TopId(Book(cls)), NoObj, NoExc,
                         r.ret # "nothing", r.ret, NoObj))
          /\ UNCHANGED issued

Init ==
    /\ abook = EmptyBook
    /\ nbook = EmptyBook
    /\ heap = <<>>
    /\ disk = NoFiles
    /\ issued = [cls \in Classes |-> <<>>]
    /\ last = NoCall
    /\ nops = 0

\* Any call on either book, with any of the arguments above.
Next ==
    \E cls \in Classes :
        \/ ApiCreate(cls, CreateKwargs(cls), MaxOps)
        \/ ApiEdit(cls, 1..MaxId, EditChanges(cls), MaxOps)
        \/ ApiDelete(cls, 1..MaxId, MaxOps)
        \/ ApiUndo(cls, MaxOps)

Spec == Init /\ [][Next]_vars

(***************************************************************************)
(* Long runs on one book, for the bound of the undo log: the calls are     *)
(* made on the address book, on the ids it holds, with well-formed         *)
(* arguments.                                                              *)
(***************************************************************************)
LogKwargs == {ContactFields({"name"}, NameAl, <<>>, <<>>, <<>>)}

LogChanges ==
    {ContactFields({"name"}, NameBo, <<>>, <<>>, <<>>)}

NextLog ==
    \/ ApiCreate("Contact", LogKwargs, MaxLogOps)
    \/ ApiEdit("Contact", DOMAIN abook.data, LogChanges, MaxLogOps)
    \/ ApiDelete("Contact", DOMAIN abook.data, MaxLogOps)
    \/ ApiUndo("Contact", MaxLogOps)

SpecLog == Init /\ [][NextLog]_vars

(***************************************************************************)
(* Runs long enough to fill the undo log and undo all it holds: creations  *)
(* on the address book, edits of its first contact, and undos.             *)
(***************************************************************************)
NextDrain ==
    \/ ApiCreate("Contact", LogKwargs, MaxDrainOps)
    \/ ApiEdit("Contact", {1} \cap DOMAIN abook.data, LogChanges, MaxDrainOps)
    \/ ApiUndo("Contact", MaxDrainOps)

SpecDrain == Init /\ [][NextDrain]_vars

(***************************************************************************)
(* Saving and loading.  ApiSave writes the book of a class to its file;    *)
(* ApiLoad replaces the book by what load makes of the file.  When load    *)
(* raises, the caller gets no book and the book stays as it is.            *)
(***************************************************************************)
FileOf(cls) == IF cls = "Contact" THEN "contacts" ELSE "notes"

\* book.save(filename)
ApiSave(cls, limit) ==
    /\ nops < limit
    /\ disk' = [disk EXCEPT ![FileOf(cls)] = save(cls, Book(cls), heap)]
    /\ last' = Call("save", cls, 0, NoObj, NoExc, TRUE, "", NoObj)
    /\ nops' = nops + 1
    /\ UNCHANGED <<abook, nbook, heap, issued>>

\* book = cls.load(filename); msg tells why load made a new book.  The book
\* loaded continues the collection when the file holds the book as it is.
ApiLoad(cls, limit) ==
    /\ nops < limit
    /\ \E now \in Clock(cls) :
          \E r \in {load(cls, disk[FileOf(cls)], heap, now)} :
              /\ Commit(cls,
                        IF r.exc = NoExc THEN r.book ELSE Book(cls),
                        IF r.exc = NoExc THEN r.heap ELSE heap,
                        Call("load", cls, 0, [now |-> now], r.exc, r.exc = NoExc,
                             IF disk[FileOf(cls)] = Nothing THEN "missing"
                             ELSE IF disk[FileOf(cls)][1].type = "garbage" THEN "damaged"
                             ELSE "",
                             NoObj))
              /\ issued' = IF r.exc = NoExc
                              /\ disk[FileOf(cls)] # save(cls, Book(cls), heap)
                           THEN [issued EXCEPT ![cls] = <<>>]
                           ELSE issued

\* The arguments of the calls made between saves and loads.
FileKwargs(cls) ==
    IF cls = "Contact"
    THEN {ContactFields({"name", "phones", "birthday"}, NameAl, <<PhoneIntl>>, <<>>, BdayDmy)}
    ELSE {NoteFields({"text", "tags", "contact_ids"}, TextHi, <<TagT>>, <<1>>)}

FileChanges(cls) ==
    IF cls = "Contact"
    THEN {ContactFields({"name", "birthday"}, NameBo, <<>>, <<>>, BdayYmd)}
    ELSE {NoteFields({"text"}, TextYo, <<>>, <<>>),
          NoteFields({"text"}, Blank, <<>>, <<>>)}

NextFile ==
    \E cls \in Classes :
        \/ ApiCreate(cls, FileKwargs(cls), MaxFileOps)
        \/ ApiEdit(cls, DOMAIN Book(cls).data, FileChanges(cls), MaxFileOps)
        \/ ApiDelete(cls, DOMAIN Book(cls).data, MaxFileOps)
        \/ ApiUndo(cls, MaxFileOps)
        \/ ApiSave(cls, MaxFileOps)
        \/ ApiLoad(cls, MaxFileOps)

SpecFile == Init /\ [][NextFile]_vars

(***************************************************************************)
(* Loading files the program did not write: the run starts with any of     *)
(* the contents below in either file.                                      *)
(***************************************************************************)
Member(key, value) == [key |-> key, value |-> value]

ContactValue(id, name, birthday) ==
    [id |-> id, name |-> name, phones |-> <<PhoneIntl>>, emails |-> <<>>,
     birthday |-> birthday]

NoteValue(id, text, created_at) ==
    [id |-> id, text |-> text, tags |-> <<TagT>>, contact_ids |-> <<1>>,
     created_at |-> created_at]

\* No file; text that is no JSON; a JSON array; a well-formed object; an
\* object with a key that is no number; an entry without a required field;
\* an entry with a malformed date followed by a sound entry.
FileContents(cls) ==
    {Nothing, Some(NotJson), Some(JsonArray)}
    \cup {Some(JsonObject(members)) : members \in
            IF cls = "Contact"
            THEN {<<Member(<<"1">>, ContactValue(1, NameAl, Some(BdayYmd)))>>,
                  <<Member(<<"x">>, ContactValue(1, NameAl, Nothing))>>,
                  <<Member(<<"1">>, [id |-> 1])>>,
                  <<Member(<<"1">>, ContactValue(1, NameAl, Some(<<"x">>))),
                    Member(<<"2">>, [id |-> 2, name |-> NameBo])>>}
            ELSE {<<Member(<<"1">>, NoteValue(1, TextHi, <<"0", "7">>))>>,
                  <<Member(<<"x">>, NoteValue(1, TextHi, <<"0", "7">>))>>,
                  <<Member(<<"1">>, [id |-> 1])>>,
                  <<Member(<<"1">>, NoteValue(1, TextHi, <<"x">>)),
                    Member(<<"2">>, [id |-> 2, text |-> TextYo])>>}}

InitLoad ==
    /\ abook = EmptyBook
    /\ nbook = EmptyBook
    /\ heap = <<>>
    /\ disk \in [contacts : FileContents("Contact"), notes : FileContents("Note")]
    /\ issued = [cls \in Classes |-> <<>>]
    /\ last = NoCall
    /\ nops = 0

NextLoad ==
    \E cls \in Classes :
        \/ ApiLoad(cls, MaxLoadOps)
        \/ ApiCreate(cls, FileKwargs(cls), MaxLoadOps)

SpecLoad == InitLoad /\ [][NextLoad]_vars

(***************************************************************************)
(* Notes created for contacts: contacts come and go, and notes are created *)
(* through the address book for ids it holds or not.                       *)
(***************************************************************************)
\* abook.create_note_for_contact(nbook, contact_id, text, tags)
ApiCreateLinked(ids, texts, taglists, limit) ==
    /\ nops < limit
    /\ nbook.max_id < MaxId
    /\ \E contact_id \in ids, text \in texts, tags \in taglists, now \in NowValues :
          \E r \in {create_note_for_contact(abook, nbook, heap, contact_id, text,
                                            tags, now)} :
              /\ Commit("Note", r.book, r.heap,
                        Call("create-note-for-contact", "Note", r.ret,
                             [contact_id |-> contact_id, text |-> text, tags |-> tags],
                             r.exc, r.exc = NoExc, "", NoObj))
              /\ issued' = IF r.exc = NoExc
                           THEN [issued EXCEPT !["Note"] = Append(@, r.ret)]
                           ELSE issued

NextLink ==
    \/ ApiCreate("Contact", LogKwargs, MaxLinkOps)
    \/ ApiDelete("Contact", DOMAIN abook.data, MaxLinkOps)
    \/ ApiCreateLinked(1..MaxId, {TextHi, Blank}, {<<>>, <<TagT>>}, MaxLinkOps)
    \/ ApiUndo("Note", MaxLinkOps)

SpecLink == Init /\ [][NextLink]_vars

(***************************************************************************)
(* Notes linked to contacts while the address book is saved and loaded     *)
(* back: contacts are created, deleted and restored by undo, notes are     *)
(* created by create_note_for_contact only, and the address book is loaded *)
(* from the file that holds it as it is.                                   *)
(***************************************************************************)
NextReload ==
    \/ ApiCreate("Contact", LogKwargs, MaxReloadOps)
    \/ ApiCreateLinked(DOMAIN abook.data, {TextHi}, {<<>>}, MaxReloadOps)
    \/ ApiDelete("Contact", DOMAIN abook.data, MaxReloadOps)
    \/ ApiUndo("Contact", MaxReloadOps)
    \/ ApiSave("Contact", MaxReloadOps)
    \/ /\ disk.contacts = save("Contact", abook, heap)
       /\ ApiLoad("Contact", MaxReloadOps)

SpecReload == Init /\ [][NextReload]_vars

(***************************************************************************)
(* Searches: entries come, go and come back (an undone delete puts the     *)
(* entry at the end of the dict), and find is called with queries that     *)
(* are parts of fields, in either case, near a name, or in no field.       *)
(***************************************************************************)
\* entry.matches(query) for an entry of the class
entry_matches(cls, e, h, query) ==
    IF cls = "Contact" THEN Contact_matches(e, query) ELSE Note_matches(e, h, query)

\* book.find(query); args.found is the list returned
ApiFind(cls, queries, limit) ==
    /\ nops < limit
    /\ \E query \in queries :
          \E r \in {find(cls, Book(cls), heap, query)} :
              /\ Commit(cls, Book(cls), heap,
                        Call("find", cls, 0, [query |-> query, found |-> r], NoExc,
                             TRUE, "", NoObj))
              /\ UNCHANGED issued

FindKwargs(cls) ==
    IF cls = "Contact"
    THEN {ContactFields({"name", "phones", "birthday"}, NameAl, <<PhoneIntl>>, <<>>, BdayDmy),
          ContactFields({"name", "emails"}, NameBo, <<>>, <<EmailOk>>, <<>>)}
    ELSE {NoteFields({"text", "tags", "contact_ids"}, TextHi, <<TagT>>, <<1>>),
          NoteFields({"text", "tags", "contact_ids"}, TextYo, <<>>, <<>>)}

FindQueries(cls) ==
    IF cls = "Contact"
    THEN {<<>>, <<"A", "L">>, <<"5", "0", "1">>, <<"a", "l", "x">>,
          <<"0", "8", ".", "1", "9">>, <<"@", "B">>, <<"z">>}
    ELSE {<<>>, <<"H", "I">>, <<"T">>, <<"z">>}

\* A run works on one of the two books: nothing was created in the other.
OneBook(cls) == \A other \in Classes \ {cls} : Book(other).max_id = 0

NextFind ==
    \E cls \in Classes :
        \/ OneBook(cls) /\ ApiCreate(cls, FindKwargs(cls), MaxFindOps - 1)
        \/ OneBook(cls) /\ ApiDelete(cls, DOMAIN Book(cls).data, MaxFindOps - 1)
        \/ OneBook(cls) /\ ApiUndo(cls, MaxFindOps - 1)
        \/ OneBook(cls) /\ ApiFind(cls, FindQueries(cls), MaxFindOps)

SpecFind == Init /\ [][NextFind]_vars

(***************************************************************************)
(* The values derived from a birthday.  date.today() is an input of each   *)
(* call; dates are compared and subtracted by their proleptic Gregorian    *)
(* ordinals, as datetime.date does.                                        *)
(***************************************************************************)
\* The days before 1 January of year y.
days_before_year(y) ==
    LET p == y - 1
    IN  365 * p + (p \div 4) - (p \div 100) + (p \div 400)

RECURSIVE days_before_month(_, _)
\* The days of year y before the first day of month m.
days_before_month(y, m) ==
    IF m = 1 THEN 0 ELSE days_before_month(y, m - 1) + DaysInMonth(y, m - 1)

\* date.toordinal
toordinal(dt) == days_before_year(dt.y) + days_before_month(dt.y, dt.m) + dt.d

\* date.replace(year=y); Nothing stands for ValueError (day is out of range
\* for month)
replace_year(dt, y) ==
    IF dt.d <= DaysInMonth(y, dt.m) THEN Some(Date(y, dt.m, dt.d)) ELSE Nothing

\* The birthday moved to a year, or to the year after it when that day is
\* before today; Nothing when a replace raised.  (lines 248-250, 411-413)
next_birthday(birthday, today) ==
    LET bday == replace_year(birthday, today.y)
    IN  IF bday = Nothing THEN Nothing
        ELSE IF toordinal(bday[1]) < toordinal(today)
        THEN replace_year(bday[1], today.y + 1)
        ELSE bday

\* Contact.days_to_birthday with date.today() = today
days_to_birthday(c, today) ==
    IF ~HasBirthday(c) THEN [exc |-> NoExc, ret |-> Nothing]
    ELSE LET bday == next_birthday(c.birthday, today)
         IN  IF bday = Nothing THEN [exc |-> "ValueError", ret |-> Nothing]
             ELSE [exc |-> NoExc, ret |-> Some(toordinal(bday[1]) - toordinal(today))]

\* Contact.age with date.today() = today
age(c, today) ==
    IF ~HasBirthday(c) THEN [exc |-> NoExc, ret |-> Nothing]
    ELSE [exc |-> NoExc,
          ret |-> Some(today.y - c.birthday.y
                       - (IF \/ today.m < c.birthday.m
                             \/ today.m = c.birthday.m /\ today.d < c.birthday.d
                          THEN 1 ELSE 0))]

\* AddressBook.get_upcoming_birthdays(days_ahead): the loop ends at the first
\* contact whose replace raises; ret is the list of the ids returned
get_upcoming_birthdays(book, days_ahead, today) ==
    LET born == SelectSeq(book.order, LAMBDA k : HasBirthday(book.data[k]))
        days(k) == toordinal(next_birthday(book.data[k].birthday, today)[1])
                      - toordinal(today)
    IN  IF \E i \in DOMAIN born : next_birthday(book.data[born[i]].birthday, today) = Nothing
        THEN [exc |-> "ValueError", ret |-> <<>>]
        ELSE [exc |-> NoExc,
              ret |-> SelectSeq(born, LAMBDA k : 0 <= days(k) /\ days(k) < days_ahead)]

\* contact.days_to_birthday() for a contact of the address book
ApiDaysToBirthday(ids, todays, limit) ==
    /\ nops < limit
    /\ \E id_val \in ids, today \in todays :
          \E r \in {days_to_birthday(abook.data[id_val], today)} :
              /\ Commit("Contact", abook, heap,
                        Call("days_to_birthday", "Contact", id_val,
                             [today |-> today, ret |-> r.ret], r.exc, r.exc = NoExc,
                             "", NoObj))
              /\ UNCHANGED issued

\* contact.age() for a contact of the address book
ApiAge(ids, todays, limit) ==
    /\ nops < limit
    /\ \E id_val \in ids, today \in todays :
          \E r \in {age(abook.data[id_val], today)} :
              /\ Commit("Contact", abook, heap,
                        Call("age", "Contact", id_val,
                             [today |-> today, ret |-> r.ret], r.exc, r.exc = NoExc,
                             "", NoObj))
              /\ UNCHANGED issued

\* abook.get_upcoming_birthdays(days_ahead)
ApiUpcoming(aheads, todays, limit) ==
    /\ nops < limit
    /\ \E days_ahead \in aheads, today \in todays :
          \E r \in {get_upcoming_birthdays(abook, days_ahead, today)} :
              /\ Commit("Contact", abook, heap,
                        Call("upcoming", "Contact", 0,
                             [today |-> today, days_ahead |-> days_ahead,
                              ret |-> r.ret], r.exc, r.exc = NoExc, "", NoObj))
              /\ UNCHANGED issued

\* Contacts born on 24 August, born on 29 February, and without a birthday.
DayKwargs ==
    {ContactFields({"name", "birthday"}, NameAl, <<>>, <<>>, BdayDmy),
     ContactFields({"name", "birthday"}, NameBo, <<>>, <<>>, BdayYmd),
     ContactFields({"name"}, NameAl, <<>>, <<>>, <<>>)}

\* The readings of date.today(): in a year that is not a leap year, on the
\* birthday, in a leap year before, on and after 29 February, on the last
\* day of a year before a leap year.
DayTodays ==
    {Date(2023, 6, 1), Date(2023, 8, 24), Date(2023, 12, 31), Date(2024, 2, 1),
     Date(2024, 2, 29), Date(2024, 3, 1)}

DayAheads == {7, 366}

NextDay ==
    \/ ApiCreate("Contact", DayKwargs, MaxDayOps - 1)
    \/ ApiDaysToBirthday(DOMAIN abook.data, DayTodays, MaxDayOps)
    \/ ApiAge(DOMAIN abook.data, DayTodays, MaxDayOps)
    \/ ApiUpcoming(DayAheads, DayTodays, MaxDayOps)

SpecDay == Init /\ [][NextDay]_vars

(***************************************************************************)
(* Runs that undo what they did.  Every call of these runs succeeds; next  *)
(* to the record of the call, last keeps for each entry of the undo log    *)
(* the serialized records the map held when the entry was pushed (before), *)
(* oldest first, dropped with the entry when the log is full.              *)
(***************************************************************************)
\* The map of a book in serialized form: to_dict of the record of each id.
Serialized(cls, book, h) ==
    [k \in DOMAIN book.data |-> json_entry(cls, book.data[k], h)]

\* The record of a call that pushed an undo entry.
Pushed(call, cls) ==
    [snaps |-> deque_append(IF "snaps" \in DOMAIN last THEN last.snaps ELSE <<>>,
                            Serialized(cls, Book(cls), heap)),
     undone |-> 0] @@ call

\* The record of an undo: the serialized map kept for the entry it popped
\* is args.expected, and undone counts the undos in a row.
Popped(call) ==
    [snaps |-> SubSeq(last.snaps, 1, Len(last.snaps) - 1),
     undone |-> last.undone + 1] @@ call

\* The clock of these runs: a time with microseconds.
UndoNow == [sec |-> 7, us |-> 5]

\* book.create_and_add(**kwargs)
UndoCreate(cls, inputs, limit) ==
    /\ nops < limit
    /\ Book(cls).max_id < MaxId
    /\ \E kwargs \in inputs, now \in {UndoNow} :
          \E r \in {create_and_add(cls, Book(cls), heap, kwargs, now)} :
              /\ r.exc = NoExc
              /\ Commit(cls, r.book, r.heap,
                        Pushed(Call("create", cls, r.ret, kwargs, NoExc, TRUE, "", NoObj),
                               cls))
              /\ issued' = [issued EXCEPT ![cls] = Append(@, r.ret)]

\* book.edit(id_val, **changes)
UndoEdit(cls, ids, inputs, limit) ==
    /\ nops < limit
    /\ \E id_val \in ids, changes \in inputs, now \in {UndoNow} :
          \E r \in {edit(cls, Book(cls), heap, id_val, changes, now)} :
              /\ r.exc = NoExc
              /\ Commit(cls, r.book, r.heap,
                        Pushed(Call("edit", cls, id_val, changes, NoExc, TRUE, "",
                                    EntryVal(cls, Book(cls), heap, id_val)), cls))
              /\ UNCHANGED issued

\* book.delete(id_val)
UndoDelete(cls, ids, limit) ==
    /\ nops < limit
    /\ \E id_val \in ids :
          \E r \in {delete(Book(cls), id_val)} :
              /\ r.ret
              /\ Commit(cls, r.book, heap,
                        Pushed(Call("delete", cls, id_val, NoObj, NoExc, TRUE, "",
                                    EntryVal(cls, Book(cls), heap, id_val)), cls))
              /\ UNCHANGED issued

\* book.undo() with an entry in the log
UndoUndo(cls, limit) ==
    /\ nops < limit
    /\ Book(cls).undo_stack # <<>>
    /\ \E r \in {undo(Book(cls))} :
          /\ Commit(cls, r.book, heap,
                    Popped(Call("undo", cls, TopId(Book(cls)),
                                [expected |-> last.snaps[Len(last.snaps)]], NoExc,
                                TRUE, r.ret, NoObj)))
          /\ UNCHANGED issued

UndoKwargs(cls) ==
    IF cls = "Contact"
    THEN {ContactFields({"name", "phones", "birthday"}, NameAl, <<PhoneIntl>>, <<>>, BdayDmy)}
    ELSE {NoteFields({"text", "tags", "contact_ids"}, TextHi, <<TagT>>, <<1>>)}

UndoChanges(cls) ==
    IF cls = "Contact"
    THEN {ContactFields({"name", "birthday"}, NameBo, <<>>, <<>>, BdayYmd)}
    ELSE {NoteFields({"text", "tags"}, TextYo, <<TagT, TagT>>, <<>>)}

\* A run works on one book: it creates its records first, then edits the
\* last record, deletes the first and undoes, in any order.
NextUndo ==
    \E cls \in Classes :
        \/ /\ OneBook(cls)
           /\ last.op \in {"init", "create"}
           /\ UndoCreate(cls, UndoKwargs(cls), MaxUndoOps)
        \/ OneBook(cls) /\ UndoEdit(cls, {Book(cls).max_id} \cap DOMAIN Book(cls).data,
                                    UndoChanges(cls), MaxUndoOps)
        \/ OneBook(cls) /\ UndoDelete(cls, {1} \cap DOMAIN Book(cls).data, MaxUndoOps)
        \/ OneBook(cls) /\ UndoUndo(cls, MaxUndoOps)

SpecUndo == Init /\ [][NextUndo]_vars

\* A run works on one book: creates, edits and deletes of any record and
\* undos, in any order.
NextRedo ==
    \E cls \in Classes :
        \/ OneBook(cls) /\ UndoCreate(cls, UndoKwargs(cls), MaxRedoOps)
        \/ OneBook(cls) /\ UndoEdit(cls, DOMAIN Book(cls).data, UndoChanges(cls),
                                    MaxRedoOps)
        \/ OneBook(cls) /\ UndoDelete(cls, DOMAIN Book(cls).data, MaxRedoOps)
        \/ OneBook(cls) /\ UndoUndo(cls, MaxRedoOps)

SpecRedo == Init /\ [][NextRedo]_vars

(***************************************************************************)
(* The command handlers.  A handler runs under input_error: an exception   *)
(* ends it where it is raised, what it changed before stays changed, and   *)
(* the save_all at its end is not reached.  Each handler takes the books,  *)
(* the heap and the files, the arguments of the command line, and the      *)
(* replies to its prompts, and yields all of them after the command.       *)
(***************************************************************************)
\* save_all: both books written to their JSON files
save_all(ab, nb, h) ==
    [contacts |-> save("Contact", ab, h), notes |-> save("Note", nb, h)]

\* What a handler leaves behind: the books, the heap and the files, the
\* exception input_error caught, the message printed last, the contact the
\* command was about, the reply it read (if it asked), the ids of the notes
\* it found linked, and the ids it created.
Outcome(ab, nb, h, d, exc, msg, id, reply, linked, made) ==
    [abook |-> ab, nbook |-> nb, heap |-> h, disk |-> d, exc |-> exc, msg |-> msg,
     id |-> id, reply |-> reply, linked |-> linked, made |-> made]

NoneMade == [Contact |-> <<>>, Note |-> <<>>]

RECURSIVE scan_tokens(_, _)
\* The loop of parse_contact_input over the tokens
scan_tokens(tokens, acc) ==
    IF tokens = <<>> THEN acc
    ELSE LET token == Head(tokens)
             possible_phone == validate_phone(token)
             acc1 == IF acc.phone = <<>> /\ possible_phone # <<>>
                     THEN [acc EXCEPT !.phone = possible_phone]
                     ELSE IF validate_email(token)
                     THEN [acc EXCEPT !.emails = Append(@, token)]
                     ELSE IF validate_birthday_format(token)
                     THEN [acc EXCEPT !.birthday = token]
                     ELSE [acc EXCEPT !.name_parts = Append(@, token)]
         IN  scan_tokens(Tail(tokens), acc1)

\* parse_contact_input: the keyword arguments read from the tokens
parse_contact_input(tokens) ==
    LET acc == scan_tokens(tokens, [phone |-> <<>>, emails |-> <<>>,
                                    name_parts |-> <<>>, birthday |-> <<>>])
        name == strip(join(acc.name_parts, <<" ">>))
    IN  ContactFields({"name"}
                        \cup (IF acc.phone # <<>> THEN {"phones"} ELSE {})
                        \cup (IF acc.emails # <<>> THEN {"emails"} ELSE {})
                        \cup (IF acc.birthday # <<>> THEN {"birthday"} ELSE {}),
                      normalize_name(name),
                      IF acc.phone # <<>> THEN <<acc.phone>> ELSE <<>>,
                      acc.emails, acc.birthday)

\* [t.lstrip('#') for t in s.split()]
hash_tags(s) ==
    LET parts == split(s)
    IN  [i \in 1..Len(parts) |-> lstrip_chars(parts[i], {"#"})]

\* The end of add_contact once the note was asked for: n is what
\* create_note_for_contact returned for the contact created by c
add_contact_noted(c, n, nb, d, choice) ==
    IF n.exc # NoExc
    THEN Outcome(c.book, nb, c.heap, d, n.exc, "", c.ret, Some(choice), <<>>,
                 [NoneMade EXCEPT !.Contact = <<c.ret>>])
    ELSE Outcome(c.book, n.book, n.heap, save_all(c.book, n.book, n.heap), NoExc,
                 "added", c.ret, Some(choice), <<n.ret>>,
                 [Contact |-> <<c.ret>>, Note |-> <<n.ret>>])

\* add_contact from abook.create_and_add(**data) on: c is what it returned.
\* format_contact reads date.today(); the prompts follow
add_contact_created(c, ab, nb, h, d, answers, now, today) ==
    LET choice == lower(strip(answers.choice))
        note_text == strip(answers.note_text)
        tags_input == strip(answers.tags)
        tags == IF tags_input # <<>> THEN hash_tags(tags_input) ELSE <<>>
    IN  IF c.exc # NoExc
        THEN Outcome(ab, nb, h, d, c.exc, "", 0, Nothing, <<>>, NoneMade)
        ELSE IF days_to_birthday_raises(c.book.data[c.ret], today)
        THEN Outcome(c.book, nb, c.heap, d, "ValueError", "", c.ret, Nothing, <<>>,
                     [NoneMade EXCEPT !.Contact = <<c.ret>>])
        ELSE IF choice \in {<<>>, <<"y">>, <<"y", "e", "s">>} /\ note_text # <<>>
        THEN add_contact_noted(c,
                               create_note_for_contact(c.book, nb, c.heap, c.ret,
                                                       note_text, tags, now),
                               nb, d, choice)
        ELSE Outcome(c.book, nb, c.heap, save_all(c.book, nb, c.heap), NoExc,
                     "added", c.ret, Some(choice), <<>>,
                     [NoneMade EXCEPT !.Contact = <<c.ret>>])

\* add_contact from the check of the parsed data on
add_contact_data(data, ab, nb, h, d, answers, now, today) ==
    IF ~(\/ "phones" \in data.has
         \/ "emails" \in data.has
         \/ "birthday" \in data.has)
    THEN Outcome(ab, nb, h, d, "ValueError", "", 0, Nothing, <<>>, NoneMade)
    ELSE add_contact_created(create_and_add("Contact", ab, h, data, now),
                             ab, nb, h, d, answers, now, today)

\* add_contact with arguments on the command line.  answers holds the
\* replies to "Create a note for this contact?", "Enter note text:" and
\* "Enter #tags"; today is date.today().
add_contact(args, ab, nb, h, d, answers, now, today) ==
    add_contact_data(parse_contact_input(args), ab, nb, h, d, answers, now, today)

\* The end of add_note: n is what nb.create_and_add(**data) returned
add_note_created(n, nb, ab, h, d) ==
    IF n.exc # NoExc
    THEN Outcome(ab, nb, h, d, n.exc, "", 0, Nothing, <<>>, NoneMade)
    ELSE Outcome(ab, n.book, n.heap, save_all(ab, n.book, n.heap), NoExc, "added",
                 0, Nothing, <<>>, [NoneMade EXCEPT !.Note = <<n.ret>>])

\* add_note with arguments on the command line
add_note(args, nb, ab, h, d, now) ==
    LET text_parts == SelectSeq(args, LAMBDA arg : Head(arg) # "#")
        tagged == SelectSeq(args, LAMBDA arg : Head(arg) = "#")
        tags == [i \in 1..Len(tagged) |-> lstrip_chars(tagged[i], {"#"})]
        text == strip(join(text_parts, <<" ">>))
    IN  IF text = <<>>
        THEN Outcome(ab, nb, h, d, "ValueError", "", 0, Nothing, <<>>, NoneMade)
        ELSE add_note_created(create_and_add("Note", nb, h,
                                             [has |-> {"text", "tags", "contact_ids"},
                                              text |-> text, tags |-> tags,
                                              contact_ids |-> <<>>],
                                             now),
                              nb, ab, h, d)

\* The keys edit_note knows, as strings.
KeyText == <<"t", "e", "x", "t">>

KeyTags == <<"t", "a", "g", "s">>

KeyContactIds == <<"c", "o", "n", "t", "a", "c", "t", "_", "i", "d", "s">>

\* The characters re.split(r"[,;\s]+", val) splits at.
IdSeparators == {",", ";"} \cup Whitespace

\* [int(x) for x in re.split(r"[,;\s]+", val) if x.isdigit()]
parse_contact_ids(val) ==
    LET parts == SelectSeq(Runs(val, IdSeparators), isdigit)
    IN  [i \in 1..Len(parts) |-> ToInt(parts[i])]

\* [x.strip().lstrip('#') for x in val.split(",")]
parse_tags(val) ==
    LET parts == SplitOn(val, ",")
    IN  [i \in 1..Len(parts) |-> lstrip_chars(strip(parts[i]), {"#"})]

RECURSIVE parse_changes(_, _)
\* The loop of edit_note over the chunks key=value: a later chunk replaces
\* an earlier one of the same key, a chunk without "=" is skipped, and a
\* key Note.update does not know changes nothing
parse_changes(chunks, changes) ==
    IF chunks = <<>> THEN changes
    ELSE LET chunk == Head(chunks)
             parts == SplitOn(chunk, "=")
             key == strip(parts[1])
             val == strip_chars(strip_chars(strip(SubSeq(chunk, Len(parts[1]) + 2,
                                                         Len(chunk))),
                                            {"\""}), {"'"})
             next == IF Len(parts) < 2 THEN changes
                     ELSE IF key = KeyTags
                     THEN [changes EXCEPT !.has = @ \cup {"tags"},
                                          !.tags = parse_tags(val)]
                     ELSE IF key = KeyContactIds
                     THEN [changes EXCEPT !.has = @ \cup {"contact_ids"},
                                          !.contact_ids = parse_contact_ids(val)]
                     ELSE IF key = KeyText
                     THEN [changes EXCEPT !.has = @ \cup {"text"}, !.text = val]
                     ELSE changes
         IN  parse_changes(Tail(chunks), next)

\* The end of edit_note: r is what nb.edit(id_val, **changes) returned
edit_note_edited(r, ab, d) ==
    IF r.exc # NoExc
    THEN Outcome(ab, r.book, r.heap, d, r.exc, "", 0, Nothing, <<>>, NoneMade)
    ELSE Outcome(ab, r.book, r.heap, save_all(ab, r.book, r.heap), NoExc, "", 0,
                 Nothing, <<>>, NoneMade)

\* edit_note with arguments on the command line
edit_note(args, nb, ab, h, d, now) ==
    IF int(args[1]) = Nothing
    THEN Outcome(ab, nb, h, d, "ValueError", "", 0, Nothing, <<>>, NoneMade)
    ELSE edit_note_edited(edit("Note", nb, h, int(args[1])[1],
                               parse_changes(Tail(args),
                                             NoteFields({}, <<>>, <<>>, <<>>)),
                               now),
                          ab, d)

\* The assignments of edit_note without arguments to the note n
edit_note_assign(n, h, new_text, new_tags) ==
    LET n1 == IF new_text # <<>> THEN [n EXCEPT !.text = new_text] ELSE n
        a  == Alloc(h, hash_tags(new_tags))
    IN  IF new_tags # <<>>
        THEN [obj |-> [n1 EXCEPT !.tags = a.ref], heap |-> a.heap]
        ELSE [obj |-> n1, heap |-> h]

\* The end of edit_note without arguments: u is the note with the new values
edit_note_assigned(u, nb, ab, id_val) ==
    Outcome(ab, [nb EXCEPT !.data[id_val] = u.obj], u.heap,
            save_all(ab, [nb EXCEPT !.data[id_val] = u.obj], u.heap), NoExc,
            "updated", 0, Nothing, <<>>, NoneMade)

\* edit_note without arguments: it asks for the id, the text and the tags
edit_note_prompted(replies, nb, ab, h, d) ==
    IF int(strip(replies.id)) = Nothing
    THEN Outcome(ab, nb, h, d, "ValueError", "", 0, Nothing, <<>>, NoneMade)
    ELSE IF find_by_id_raises(nb, int(strip(replies.id))[1])
    THEN Outcome(ab, nb, h, d, "KeyError", "", 0, Nothing, <<>>, NoneMade)
    ELSE edit_note_assigned(
             edit_note_assign(nb.data[int(strip(replies.id))[1]], h,
                              strip(replies.text), strip(replies.tags)),
             nb, ab, int(strip(replies.id))[1])

\* The replies to a prompt asked in a loop that count: those typed before
\* the first blank one or "stop" (the end of the replies is a blank one).
Entered(replies) ==
    LET ends == {i \in 1..Len(replies) :
                     \/ strip(replies[i]) = <<>>
                     \/ lower(strip(replies[i])) = <<"s", "t", "o", "p">>}
    IN  IF ends = {} THEN replies
        ELSE SubSeq(replies, 1, (CHOOSE i \in ends : \A j \in ends : i <= j) - 1)

RECURSIVE valid_phones(_)
\* new_phones of edit_contact: validate_phone of each reply that has one
valid_phones(replies) ==
    IF replies = <<>> THEN <<>>
    ELSE (IF validate_phone(strip(Head(replies))) # <<>>
          THEN <<validate_phone(strip(Head(replies)))>> ELSE <<>>)
         \o valid_phones(Tail(replies))

\* new_emails of edit_contact: the replies validate_email accepts
valid_emails(replies) ==
    SelectSeq([i \in 1..Len(replies) |-> strip(replies[i])], validate_email)

\* The body of the interactive branch of edit_contact: the assignments to
\* the contact c, one after the other
edit_contact_assign(c, replies) ==
    LET new_name == strip(replies.name)
        c1 == IF new_name # <<>> THEN [c EXCEPT !.name = normalize_name(new_name)] ELSE c
        new_phones == valid_phones(Entered(replies.phones))
        c2 == IF new_phones # <<>> THEN [c1 EXCEPT !.phones = new_phones] ELSE c1
        new_emails == valid_emails(Entered(replies.emails))
        c3 == IF new_emails # <<>> THEN [c2 EXCEPT !.emails = new_emails] ELSE c2
        b == strip(replies.birthday)
    IN  IF b # <<>> /\ validate_birthday_format(b)
        THEN [c3 EXCEPT !.birthday = parse_birthday(b)]
        ELSE c3

\* The end of edit_contact: the message and save_all
edit_contact_edited(ab, nb, h, id_val) ==
    Outcome(ab, nb, h, save_all(ab, nb, h), NoExc, "edited", id_val, Nothing, <<>>,
            NoneMade)

\* The inline branch of edit_contact once abook.edit returned r
edit_contact_inline(r, nb, d, id_val) ==
    IF r.exc # NoExc
    THEN Outcome(r.book, nb, r.heap, d, r.exc, "", id_val, Nothing, <<>>, NoneMade)
    ELSE edit_contact_edited(r.book, nb, r.heap, id_val)

\* edit_contact: without arguments it asks for the id and the new values and
\* assigns them to the contact; with arguments it calls abook.edit with what
\* parse_contact_input reads from the words after the id
edit_contact(args, ab, nb, h, d, replies, now) ==
    IF args = <<>>
    THEN IF int(strip(replies.id)) = Nothing
         THEN Outcome(ab, nb, h, d, "ValueError", "", 0, Nothing, <<>>, NoneMade)
         ELSE IF find_by_id_raises(ab, int(strip(replies.id))[1])
         THEN Outcome(ab, nb, h, d, "KeyError", "", 0, Nothing, <<>>, NoneMade)
         ELSE edit_contact_edited(
                  [ab EXCEPT !.data[int(strip(replies.id))[1]] =
                       edit_contact_assign(@, replies)],
                  nb, h, int(strip(replies.id))[1])
    ELSE IF int(args[1]) = Nothing
         THEN Outcome(ab, nb, h, d, "ValueError", "", 0, Nothing, <<>>, NoneMade)
         ELSE edit_contact_inline(edit("Contact", ab, h, int(args[1])[1],
                                       parse_contact_input(Tail(args)), now),
                                  nb, d, int(args[1])[1])

RECURSIVE delete_linked(_, _)
\* for note in linked_notes: nbook.delete(note.id)
delete_linked(nb, linked_notes) ==
    IF linked_notes = <<>> THEN nb
    ELSE delete_linked(delete(nb, Head(linked_notes).id).book, Tail(linked_notes))

RECURSIVE detach_linked(_, _, _)
\* for note in linked_notes: if id_val in note.contact_ids:
\*     note.contact_ids.remove(id_val)
detach_linked(h, linked_notes, id_val) ==
    IF linked_notes = <<>> THEN h
    ELSE LET ref == Head(linked_notes).contact_ids
             h1 == IF InList(id_val, h[ref])
                   THEN [h EXCEPT ![ref] = list_remove(@, id_val)]
                   ELSE h
         IN  detach_linked(h1, Tail(linked_notes), id_val)

\* The ids of a list of entries.
IdsOf(entries) == [i \in 1..Len(entries) |-> entries[i].id]

\* a delete_contact that takes any other answer to the prompt for 'k'
delete_contact_any_answer(args, ab, nb, h, d, answer) ==
    IF args = <<>>
    THEN Outcome(ab, nb, h, d, "ValueError", "", 0, Nothing, <<>>, NoneMade)
    ELSE
    LET identifier == strip(join(args, <<" ">>))
        by_id == isdigit(identifier)
        matches == find("Contact", ab, h, identifier)
    IN  IF by_id /\ find_by_id_raises(ab, ToInt(identifier))
        THEN Outcome(ab, nb, h, d, NoExc, "not found", 0, Nothing, <<>>, NoneMade)
        ELSE IF ~by_id /\ matches = <<>>
        THEN Outcome(ab, nb, h, d, NoExc, "not found", 0, Nothing, <<>>, NoneMade)
        ELSE IF ~by_id /\ Len(matches) > 1
        THEN Outcome(ab, nb, h, d, NoExc, "several found", 0, Nothing, <<>>, NoneMade)
        ELSE
        LET contact == IF by_id THEN ab.data[ToInt(identifier)] ELSE matches[1]
            id_val == contact.id
            linked_notes == find_by_contact_id(nb, h, id_val)
            choice == lower(strip(answer))
            reply == IF linked_notes # <<>> THEN Some(choice) ELSE Nothing
            nb1 == IF linked_notes # <<>> /\ choice = <<"d">>
                   THEN delete_linked(nb, linked_notes) ELSE nb
            h1 == IF linked_notes # <<>> /\ choice # <<"d">>
                  THEN detach_linked(h, linked_notes, id_val) ELSE h
            a == delete(ab, id_val)
        IN  Outcome(a.book, nb1, h1, save_all(a.book, nb1, h1), NoExc,
                    IF a.ret THEN "deleted" ELSE "not found", id_val, reply,
                    IdsOf(linked_notes), NoneMade)

\* delete_contact; answer is the reply to "[D/K]"
delete_contact(args, ab, nb, h, d, answer) ==
    IF args = <<>>
    THEN Outcome(ab, nb, h, d, "ValueError", "", 0, Nothing, <<>>, NoneMade)
    ELSE
    LET identifier == strip(join(args, <<" ">>))
        by_id == isdigit(identifier)
        matches == find("Contact", ab, h, identifier)
    IN  IF by_id /\ find_by_id_raises(ab, ToInt(identifier))
        THEN Outcome(ab, nb, h, d, NoExc, "not found", 0, Nothing, <<>>, NoneMade)
        ELSE IF ~by_id /\ matches = <<>>
        THEN Outcome(ab, nb, h, d, NoExc, "not found", 0, Nothing, <<>>, NoneMade)
        ELSE IF ~by_id /\ Len(matches) > 1
        THEN Outcome(ab, nb, h, d, NoExc, "several found", 0, Nothing, <<>>, NoneMade)
        ELSE
        LET contact == IF by_id THEN ab.data[ToInt(identifier)] ELSE matches[1]
            id_val == contact.id
            linked_notes == find_by_contact_id(nb, h, id_val)
            choice == lower(strip(answer))
            reply == IF linked_notes # <<>> THEN Some(choice) ELSE Nothing
            nb1 == IF linked_notes # <<>> /\ choice = <<"d">>
                   THEN delete_linked(nb, linked_notes) ELSE nb
            h1 == IF linked_notes # <<>> /\ choice # <<"d">>
                  THEN detach_linked(h, linked_notes, id_val) ELSE h
            a == delete(ab, id_val)
        IN  IF linked_notes # <<>> /\ choice \notin {<<"d">>, <<"k">>, <<>>}
            THEN Outcome(ab, nb, h, d, NoExc, "cancelled", id_val, reply,
                         IdsOf(linked_notes), NoneMade)
            ELSE Outcome(a.book, nb1, h1, save_all(a.book, nb1, h1), NoExc,
                         IF a.ret THEN "deleted" ELSE "not found", id_val, reply,
                         IdsOf(linked_notes), NoneMade)

\* undo_contact
undo_contact(ab, nb, h, d) ==
    LET r == undo(ab)
    IN  Outcome(r.book, nb, h, save_all(r.book, nb, h), NoExc, r.ret, 0, Nothing,
                <<>>, NoneMade)

\* delete_note
delete_note(args, nb, ab, h, d) ==
    IF args = <<>> \/ int(args[1]) = Nothing
    THEN Outcome(ab, nb, h, d, "ValueError", "", 0, Nothing, <<>>, NoneMade)
    ELSE LET r == delete(nb, int(args[1])[1])
         IN  Outcome(ab, r.book, h, save_all(ab, r.book, h), NoExc,
                     IF r.ret THEN "deleted" ELSE "not found", 0, Nothing, <<>>,
                     NoneMade)

\* The pushpin character, the tag of a pinned note.
PinTag == <<"pin">>

\* pin_note with the id on the command line
pin_note(args, nb, ab, h, d) ==
    LET id_val == int(args[1])
    IN  IF id_val = Nothing
        THEN Outcome(ab, nb, h, d, "ValueError", "", 0, Nothing, <<>>, NoneMade)
        ELSE IF find_by_id_raises(nb, id_val[1])
        THEN Outcome(ab, nb, h, d, "KeyError", "", 0, Nothing, <<>>, NoneMade)
        ELSE LET ref == nb.data[id_val[1]].tags
                 h1 == IF ~InList(PinTag, h[ref])
                       THEN [h EXCEPT ![ref] = Append(@, PinTag)]
                       ELSE h
             IN  Outcome(ab, nb, h1, save_all(ab, nb, h1), NoExc, "pinned", 0,
                         Nothing, <<>>, NoneMade)

\* undo_note
undo_note(nb, ab, h, d) ==
    LET r == undo(nb)
    IN  Outcome(ab, r.book, h, save_all(ab, r.book, h), NoExc, r.ret, 0, Nothing,
                <<>>, NoneMade)

(***************************************************************************)
(* The command loop of main: one action per command, each the whole        *)
(* handler.  The arguments are the words of the command line after the     *)
(* command; the replies are what the user types at the prompts.            *)
(***************************************************************************)
WordAl == <<"a", "l">>

WordBo == <<"b", "o">>

HashT == <<"#", "t">>

\* The chunk key=val of edit-note.
Assign(key, val) == key \o <<"=">> \o val

\* The command lines of add-contact: a name with a phone, a name with a
\* birthday on 29 February, and a name alone.
AddContactArgs == {<<WordAl, PhoneLocal>>, <<WordBo, BdayYmd>>, <<WordAl>>}

\* The replies to the prompts of add-contact: a note with a tag, or no note.
AddContactAnswers ==
    {[choice |-> <<>>, note_text |-> TextHi, tags |-> HashT],
     [choice |-> <<"n">>, note_text |-> <<>>, tags |-> <<>>]}

\* The readings of date.today(): in a year that is not a leap year, and in a
\* leap year before 29 February.
Todays == {Date(2023, 6, 1), Date(2024, 2, 1)}

AddNoteArgs == {<<TextYo, HashT>>, <<HashT>>}

\* The words that name an id.
IdArgs == {<<str_int(i)>> : i \in 1..MaxId}

\* The command lines of edit-note: contact ids once, twice and mixed, other
\* fields, and no id.
EditNoteArgs ==
    {<<<<"1">>, Assign(KeyContactIds, <<"1", ",", "1">>)>>,
     <<<<"2">>, Assign(KeyContactIds, <<"1">>)>>,
     <<<<"2">>, Assign(KeyContactIds, <<"2", ";", "1">>)>>,
     <<<<"1">>, Assign(KeyText, TextYo), Assign(KeyTags, HashT)>>,
     <<<<"x">>>>}

\* The command lines of delete-contact: an id, a name, a part of a name.
DeleteContactArgs == IdArgs \cup {<<WordAl>>, <<<<"b">>>>}

\* The replies to "[D/K]".
DeleteContactAnswers == {<<"d">>, <<"K">>, <<>>, <<"x">>}

\* The reading of datetime.now() in the runs of the command loop: one with
\* microseconds.
CommandClock == {[sec |-> 7, us |-> 5]}

\* The state after a command, and the record of it in last.  Of the files a
\* handler writes contacts.json and notes.json only.
Done(op, r) ==
    /\ r.abook.max_id <= MaxId
    /\ r.nbook.max_id <= MaxId
    /\ abook' = r.abook
    /\ nbook' = r.nbook
    /\ heap' = Collect(r.heap, r.nbook)
    /\ disk' = [disk EXCEPT !.contacts = r.disk.contacts, !.notes = r.disk.notes]
    /\ issued' = [cls \in Classes |-> issued[cls] \o r.made[cls]]
    /\ last' = [op |-> op, id |-> r.id, reply |-> r.reply, exc |-> r.exc,
                msg |-> r.msg, linked |-> r.linked]
    /\ nops' = nops + 1

CmdAddContact ==
    /\ nops < MaxCmds
    /\ \E args \in AddContactArgs, answers \in AddContactAnswers,
          now \in CommandClock, today \in Todays :
          \E r \in {add_contact(args, abook, nbook, heap, disk, answers, now, today)} :
              Done("add-contact", r)

CmdDeleteContact ==
    /\ nops < MaxCmds
    /\ \E args \in DeleteContactArgs, answer \in DeleteContactAnswers :
          \E r \in {delete_contact(args, abook, nbook, heap, disk, answer)} :
              Done("delete-contact", r)

CmdUndoContact ==
    /\ nops < MaxCmds
    /\ \E r \in {undo_contact(abook, nbook, heap, disk)} : Done("undo-contact", r)

CmdAddNote ==
    /\ nops < MaxCmds
    /\ \E args \in AddNoteArgs, now \in CommandClock :
          \E r \in {add_note(args, nbook, abook, heap, disk, now)} :
              Done("add-note", r)

CmdEditNote ==
    /\ nops < MaxCmds
    /\ \E args \in EditNoteArgs, now \in CommandClock :
          \E r \in {edit_note(args, nbook, abook, heap, disk, now)} :
              Done("edit-note", r)

CmdDeleteNote ==
    /\ nops < MaxCmds
    /\ \E args \in IdArgs :
          \E r \in {delete_note(args, nbook, abook, heap, disk)} :
              Done("delete-note", r)

CmdPinNote ==
    /\ nops < MaxCmds
    /\ \E args \in IdArgs :
          \E r \in {pin_note(args, nbook, abook, heap, disk)} :
              Done("pin-note", r)

CmdUndoNote ==
    /\ nops < MaxCmds
    /\ \E r \in {undo_note(nbook, abook, heap, disk)} : Done("undo-note", r)

NextCmd ==
    \/ CmdAddContact
    \/ CmdDeleteContact
    \/ CmdUndoContact
    \/ CmdAddNote
    \/ CmdEditNote
    \/ CmdDeleteNote
    \/ CmdPinNote
    \/ CmdUndoNote

\* main started without files: restore_or_load yields two empty books.
SpecCmd == Init /\ [][NextCmd]_vars

(***************************************************************************)
(* The commands that change a field of a stored record, next to the        *)
(* commands that create the records and the undo commands.                 *)
(***************************************************************************)
\* The command lines of edit-contact: none (the handler asks), an id with a
\* name, and an id with a phone only.
EditContactArgs == {<<>>, <<<<"1">>, WordBo>>, <<<<"1">>, PhoneLocal>>}

\* The replies to the prompts of edit-contact: a new name only, and phones
\* (one of them malformed), an email and a birthday without a name.
EditContactReplies ==
    {[id |-> <<"1">>, name |-> WordBo, phones |-> <<>>, emails |-> <<>>,
      birthday |-> <<>>],
     [id |-> <<"1">>, name |-> <<>>, phones |-> <<PhoneBad, PhoneLocal>>,
      emails |-> <<EmailOk>>, birthday |-> BdayDmy]}

\* The replies to the prompts of edit-note: a new text, or new tags.
EditNoteReplies ==
    {[id |-> <<"1">>, text |-> TextYo, tags |-> <<>>],
     [id |-> <<"1">>, text |-> <<>>, tags |-> HashT]}

CmdEditContact ==
    /\ nops < MaxCmds
    /\ \E args \in EditContactArgs, replies \in EditContactReplies,
          now \in CommandClock :
          \E r \in {edit_contact(args, abook, nbook, heap, disk, replies, now)} :
              Done("edit-contact", r)

CmdEditNotePrompted ==
    /\ nops < MaxCmds
    /\ \E replies \in EditNoteReplies :
          \E r \in {edit_note_prompted(replies, nbook, abook, heap, disk)} :
              Done("edit-note", r)

NextEdit ==
    \/ CmdAddContact
    \/ CmdEditContact
    \/ CmdDeleteContact
    \/ CmdUndoContact
    \/ CmdEditNote
    \/ CmdEditNotePrompted
    \/ CmdPinNote
    \/ CmdUndoNote

SpecEdit == Init /\ [][NextEdit]_vars

(***************************************************************************)
(* The session files contacts_session.pkl and notes_session.pkl.  In the   *)
(* runs below disk has two more fields, contacts_session and               *)
(* notes_session.  The module defines save_all twice: the definition at    *)
(* line 656 replaces the one at line 495 when the module is loaded, so     *)
(* every handler calls the second one and only reads of the session files  *)
(* and their removal are left of the first.                                *)
(***************************************************************************)
\* What pickle.load yields: the dict the first save_all dumps (max_id is
\* Nothing when the key is missing), or bytes pickle rejects.
SessionData(members, max_id) == [type |-> "session", members |-> members, max_id |-> max_id]

NotPickle == [type |-> "garbage", members |-> <<>>, max_id |-> Nothing]

\* The first save_all (lines 495-513), for one book: the file it would write.
save_session(cls, book, h) ==
    Some(SessionData([i \in 1..Len(book.order) |->
                         [key |-> str_int(book.order[i]),
                          value |-> json_entry(cls, book.data[book.order[i]], h)]],
                     Some(book.max_id)))

SessionOf(cls) == IF cls = "Contact" THEN "contacts_session" ELSE "notes_session"

\* session_files_exist
session_files_exist(d) == d.contacts_session # Nothing \/ d.notes_session # Nothing

\* remove_session_files
remove_session_files(d) ==
    [d EXCEPT !.contacts_session = Nothing, !.notes_session = Nothing]

RECURSIVE session_members(_, _, _, _, _, _)
\* member i of raw with the entry from_dict made of its value: stored under
\* int(k), then the rest.  An exception of from_dict or of int ends the
\* loop (except: pass) with what was stored before it.
session_stored(cls, members, i, book, h, now, e) ==
    IF e.exc # NoExc \/ int(members[i].key) = Nothing
    THEN [book |-> book, heap |-> h, done |-> FALSE]
    ELSE session_members(cls, members, i + 1,
                         dict_set(book, int(members[i].key)[1], e.obj), e.heap, now)

\* The loop of load_from_session_files from member i on; done says that it
\* reached its end
session_members(cls, members, i, book, h, now) ==
    IF i > Len(members) THEN [book |-> book, heap |-> h, done |-> TRUE]
    ELSE session_stored(cls, members, i, book, h, now,
                        load_entry(cls, members[i].value, h, now))

\* The book load_from_session_files leaves when the loop of a file ended as
\* r says: _max_id is assigned after the loop, so not when an exception
\* left the loop
session_book(file, r) ==
    IF r.done
    THEN [book |-> [r.book EXCEPT !.max_id = file[1].max_id[1]], heap |-> r.heap]
    ELSE [book |-> r.book, heap |-> r.heap]

\* load_from_session_files, for one book: no file, bytes pickle rejects and
\* a dict without "max_id" give a new book
load_session(cls, file, h, now) ==
    IF file = Nothing \/ file[1].type # "session" \/ file[1].max_id = Nothing
    THEN [book |-> EmptyBook, heap |-> h]
    ELSE session_book(file, session_members(cls, file[1].members, 1, EmptyBook, h, now))

\* load_from_session_files from the notebook on: a is what the read of
\* contacts_session.pkl gave
session_notes(a, n) == [abook |-> a.book, nbook |-> n.book, heap |-> n.heap]

session_contacts(d, now, a) ==
    session_notes(a, load_session("Note", d.notes_session, a.heap, now))

\* load_from_session_files: the address book, then the notebook
load_from_session_files(d, h, now) ==
    session_contacts(d, now, load_session("Contact", d.contacts_session, h, now))

\* commit_session_to_json: the files after it
commit_session_to_json(ab, nb, h, d) ==
    remove_session_files([d EXCEPT !.contacts = save("Contact", ab, h),
                                   !.notes = save("Note", nb, h)])

\* restore_or_load after the session was restored
restore_session(s, d, reply) ==
    [abook |-> s.abook, nbook |-> s.nbook, heap |-> s.heap, disk |-> d,
     exc |-> NoExc, reply |-> reply, restored |-> TRUE]

\* restore_or_load after both JSON files were read (lines 591-593): an
\* exception of load leaves main
restore_loaded(a, n, d, reply) ==
    IF a.exc # NoExc
    THEN [abook |-> EmptyBook, nbook |-> EmptyBook, heap |-> <<>>, disk |-> d,
          exc |-> a.exc, reply |-> reply, restored |-> FALSE]
    ELSE IF n.exc # NoExc
    THEN [abook |-> EmptyBook, nbook |-> EmptyBook, heap |-> <<>>, disk |-> d,
          exc |-> n.exc, reply |-> reply, restored |-> FALSE]
    ELSE [abook |-> a.book, nbook |-> n.book, heap |-> n.heap, disk |-> d,
          exc |-> NoExc, reply |-> reply, restored |-> FALSE]

\* restore_or_load from AddressBook.load(CONTACTS_FILE) on
restore_json(a, d, reply, now) ==
    restore_loaded(a, load("Note", d.notes, a.heap, now), d, reply)

\* restore_or_load with the files d; answer is the line read when a session
\* file exists
restore_or_load(d, answer, now) ==
    IF session_files_exist(d) /\ lower(strip(answer)) \in {<<"y">>, <<"y", "e", "s">>, <<>>}
    THEN restore_session(load_from_session_files(d, <<>>, now), d,
                         Some(lower(strip(answer))))
    ELSE IF session_files_exist(d)
    THEN restore_json(load("Contact", d.contacts, <<>>, now), remove_session_files(d),
                      Some(lower(strip(answer))), now)
    ELSE restore_json(load("Contact", d.contacts, <<>>, now), d, Nothing, now)

\* The command loop is running: main has started and has not ended.
Running ==
    /\ last.op \notin {"init", "exit", "crash"}
    /\ ~(last.op = "start" /\ last.exc # NoExc)

\* The replies to "Відновити? (Y/n)".
RestoreAnswers == {<<>>, <<"Y">>, <<"n">>}

\* main starts: restore_or_load
SessStart ==
    /\ nops < MaxCmds
    /\ ~Running
    /\ \E answer \in RestoreAnswers, now \in CommandClock :
          \E r \in {restore_or_load(disk, answer, now)} :
              /\ abook' = r.abook
              /\ nbook' = r.nbook
              /\ heap' = Collect(r.heap, r.nbook)
              /\ disk' = r.disk
              /\ issued' = [cls \in Classes |-> <<>>]
              /\ last' = [op |-> "start", id |-> 0, reply |-> r.reply, exc |-> r.exc,
                          msg |-> "", linked |-> <<>>, restored |-> r.restored]
              /\ nops' = nops + 1

\* The command exit (or close): commit_session_to_json, then main ends
SessExit ==
    /\ nops < MaxCmds
    /\ Running
    /\ disk' = commit_session_to_json(abook, nbook, heap, disk)
    /\ last' = [op |-> "exit", id |-> 0, reply |-> Nothing, exc |-> NoExc,
                msg |-> "", linked |-> <<>>]
    /\ nops' = nops + 1
    /\ UNCHANGED <<abook, nbook, heap, issued>>

\* The process ends at the prompt without the command exit: what is in
\* memory is lost, the files stay.
SessCrash ==
    /\ nops < MaxCmds
    /\ Running
    /\ abook' = EmptyBook
    /\ nbook' = EmptyBook
    /\ heap' = <<>>
    /\ issued' = [cls \in Classes |-> <<>>]
    /\ last' = [op |-> "crash", id |-> 0, reply |-> Nothing, exc |-> NoExc,
                msg |-> "", linked |-> <<>>]
    /\ nops' = nops + 1
    /\ UNCHANGED disk

\* No session file; bytes pickle rejects; the dump of a book with one entry;
\* a dump whose second entry lacks a required field.
SessionContents(cls) ==
    {Nothing, Some(NotPickle)}
    \cup {Some(SessionData(members, Some(Len(members)))) : members \in
            IF cls = "Contact"
            THEN {<<Member(<<"1">>, ContactValue(1, NameAl, Nothing))>>,
                  <<Member(<<"1">>, ContactValue(1, NameAl, Nothing)),
                    Member(<<"2">>, [id |-> 2])>>}
            ELSE {<<Member(<<"1">>, NoteValue(1, TextHi, <<"0", "7">>))>>,
                  <<Member(<<"1">>, NoteValue(1, TextHi, <<"0", "7">>)),
                    Member(<<"2">>, [id |-> 2])>>}}

\* main has not started; there are no JSON files, and session files a run
\* that ended without exit may have left.
InitSess ==
    /\ abook = EmptyBook
    /\ nbook = EmptyBook
    /\ heap = <<>>
    /\ disk \in [contacts : {Nothing}, notes : {Nothing},
                 contacts_session : SessionContents("Contact"),
                 notes_session : SessionContents("Note")]
    /\ issued = [cls \in Classes |-> <<>>]
    /\ last = NoCall
    /\ nops = 0

NextSess ==
    \/ SessStart
    \/ Running /\ CmdAddContact
    \/ Running /\ CmdUndoContact
    \/ Running /\ CmdAddNote
    \/ Running /\ CmdDeleteNote
    \/ Running /\ CmdPinNote
    \/ SessExit
    \/ SessCrash

SpecSess == InitSess /\ [][NextSess]_vars

(***************************************************************************)
(* The claims.                                                             *)
(***************************************************************************)
\* C1: in each collection the ids create returns are strictly increasing
\* in the order they were returned, so no id is returned twice, whatever
\* edits, deletes and undos come between.
C1_IdsStrictlyIncrease ==
    \A cls \in Classes :
        \A i, j \in 1..Len(issued[cls]) :
            i < j => issued[cls][i] < issued[cls][j]

\* A create that follows the undo of a delete, in a book create was called
\* on before.
C1_Witness ==
    /\ last.op = "create" /\ last.exc = NoExc
    /\ last.prev.op = "undo" /\ last.prev.msg = "delete" /\ last.prev.cls = last.cls
    /\ Len(issued[last.cls]) >= 2

\* C2: after an edit on a present entry, an undo made right after it
\* leaves the entry with every field as it was before the edit.
C2_UndoRestoresEdited ==
    (/\ last.op = "undo" /\ last.msg = "edit"
     /\ last.prev.op = "edit" /\ last.prev.exc = NoExc /\ last.prev.cls = last.cls)
    => EntryVal(last.cls, Book(last.cls), heap, last.prev.id) = last.prev.before

\* C3: after the delete of a present entry, an undo made right after it
\* makes find_by_id return an entry with every field as it was before the
\* delete.
C3_UndoRestoresDeleted ==
    (/\ last.op = "undo"
     /\ last.prev.op = "delete" /\ last.prev.ok /\ last.prev.cls = last.cls)
    => /\ ~find_by_id_raises(Book(last.cls), last.prev.id)
       /\ EntryVal(last.cls, Book(last.cls), heap, last.prev.id) = last.prev.before

\* An undo right after a delete that removed a note.
C3_Witness ==
    /\ last.op = "undo" /\ last.cls = "Note"
    /\ last.prev.op = "delete" /\ last.prev.ok /\ last.prev.cls = "Note"
    /\ last.prev.before # NoObj

\* C4: after a create that returned id i, an undo made right after it
\* removes i, so that find_by_id(i) raises KeyError.
C4_UndoRemovesCreated ==
    (/\ last.op = "undo"
     /\ last.prev.op = "create" /\ last.prev.exc = NoExc /\ last.prev.cls = last.cls)
    => find_by_id_raises(Book(last.cls), last.prev.id)

\* An undo right after a create that returned an id.
C4_Witness ==
    /\ last.op = "undo" /\ last.msg = "add"
    /\ last.prev.op = "create" /\ last.prev.exc = NoExc /\ last.prev.cls = last.cls
    /\ last.prev.id >= 1

\* A call that logged an undo entry: a create or an edit that returned, a
\* delete that returned true.
Logged(call) ==
    \/ call.op = "create" /\ call.exc = NoExc
    \/ call.op = "edit" /\ call.exc = NoExc
    \/ call.op = "delete" /\ call.ok

LoggedAction(call) == IF call.op = "create" THEN "add" ELSE call.op

\* C5: the undo log never holds more than MAX_UNDO_STEPS entries; a call
\* that logs an entry while the log is full drops exactly the oldest entry,
\* keeps the others in their order and puts its own entry last.
C5_LogBounded ==
    [][/\ Len(abook'.undo_stack) <= MAX_UNDO_STEPS
       /\ Len(nbook'.undo_stack) <= MAX_UNDO_STEPS
       /\ \A cls \in Classes :
            (/\ last'.cls = cls /\ Logged(last')
             /\ Len(Book(cls).undo_stack) = MAX_UNDO_STEPS)
            => LET old == IF cls = "Contact" THEN abook.undo_stack ELSE nbook.undo_stack
                   new == IF cls = "Contact" THEN abook'.undo_stack ELSE nbook'.undo_stack
               IN  /\ Len(new) = MAX_UNDO_STEPS
                   /\ SubSeq(new, 1, MAX_UNDO_STEPS - 1) = Tail(old)
                   /\ new[MAX_UNDO_STEPS].action = LoggedAction(last')
                   /\ new[MAX_UNDO_STEPS].id = last'.id]_vars

\* A full log that has lost the "add" entry of an entry the book holds: the
\* call made last logged an entry while the log was full.
C5_Witness ==
    /\ Len(abook.undo_stack) = MAX_UNDO_STEPS
    /\ Logged(last)
    /\ \E k \in DOMAIN abook.data :
          \A i \in 1..Len(abook.undo_stack) :
              ~(abook.undo_stack[i].action = "add" /\ abook.undo_stack[i].id = k)

\* C6: after delete-contact answered 'k' or '' (Detach), every note that
\* referenced the contact is still in the notebook with its text and tags
\* unchanged, and no note's contact_ids holds the contact's id any more
C6_DetachStripsContact ==
    [][(/\ last'.op = "delete-contact"
        /\ last'.msg = "deleted"
        /\ last'.reply \in {Some(<<"k">>), Some(<<>>)})
       => /\ \A k \in DOMAIN nbook.data :
                InList(last'.id, heap[nbook.data[k].contact_ids])
                => /\ k \in DOMAIN nbook'.data
                   /\ nbook'.data[k].text = nbook.data[k].text
                   /\ heap'[nbook'.data[k].tags] = heap[nbook.data[k].tags]
          /\ \A k \in DOMAIN nbook'.data :
                ~InList(last'.id, heap'[nbook'.data[k].contact_ids])]_vars

\* C7: after delete-contact answered 'd' (Cascade), the contact is not in
\* the address book, no note of the notebook holds its id in contact_ids,
\* and every note that did not reference it is in the notebook unchanged
C7_CascadeDeletesLinked ==
    [][(/\ last'.op = "delete-contact"
        /\ last'.reply = Some(<<"d">>))
       => /\ last'.id \notin DOMAIN abook'.data
          /\ \A k \in DOMAIN nbook'.data :
                ~InList(last'.id, heap'[nbook'.data[k].contact_ids])
          /\ \A k \in DOMAIN nbook.data :
                ~InList(last'.id, heap[nbook.data[k].contact_ids])
                => /\ k \in DOMAIN nbook'.data
                   /\ NoteVal(nbook'.data[k], heap') = NoteVal(nbook.data[k], heap)]_vars

\* A contact was deleted with the reply 'd' while a note referenced it, and
\* a note that did not reference it is in the notebook.
C7_Witness ==
    /\ last.op = "delete-contact"
    /\ last.reply = Some(<<"d">>)
    /\ last.msg = "deleted"
    /\ last.linked # <<>>
    /\ last.id \notin DOMAIN abook.data
    /\ nbook.data # <<>>

\* C8: a create that returns (add of an entry with id 0) returns
\* max_seen_id + 1, raises max_seen_id to it, appends exactly one
\* ("add", id, None) entry to the undo log, stores the entry under the id and
\* leaves every other entry of the map as it was.
C8_AddAssignsNextId ==
    [][(last'.op = "create" /\ last'.exc = NoExc)
       => LET cls == last'.cls
              id  == last'.id
              old == Book(cls)
              new == BookNext(cls)
              e   == [action |-> "add", id |-> id, old |-> NoObj]
          IN  /\ id = old.max_id + 1
              /\ new.max_id = id
              /\ new.undo_stack =
                    IF Len(old.undo_stack) < MAX_UNDO_STEPS
                    THEN Append(old.undo_stack, e)
                    ELSE Append(Tail(old.undo_stack), e)
              /\ DOMAIN new.data = (DOMAIN old.data) \cup {id}
              /\ new.data[id].id = id
              /\ IF cls = "Contact" THEN new.data[id].name = last'.args.name
                 ELSE new.data[id].text = last'.args.text
              /\ \A k \in (DOMAIN old.data) \ {id} : new.data[k] = old.data[k]]_vars

\* A second create that returned, in a book that holds another entry.
C8_Witness ==
    /\ last.op = "create" /\ last.exc = NoExc /\ last.id = 2
    /\ DOMAIN Book(last.cls).data = {1, 2}

\* The format contracts of the fields given to create.
ViolatesFormat(cls, kwargs) ==
    IF cls = "Contact"
    THEN \/ strip(kwargs.name) = <<>>
         \/ \E i \in 1..Len(kwargs.phones) : validate_phone(kwargs.phones[i]) = <<>>
         \/ \E i \in 1..Len(kwargs.emails) : ~validate_email(kwargs.emails[i])
         \/ "birthday" \in kwargs.has /\ ~validate_birthday_format(kwargs.birthday)
    ELSE strip(kwargs.text) = <<>>

\* C9: a create given a field that violates its format contract raises the
\* validation error and leaves the map, max_seen_id and the undo log as they
\* were.
C9_CreateValidates ==
    [][(last'.op = "create" /\ ViolatesFormat(last'.cls, last'.args))
       => /\ last'.exc = "ValueError"
          /\ abook' = abook
          /\ nbook' = nbook]_vars

\* C10: an edit that raises the validation error leaves every field of the
\* live entry as it was before the call.
C10_FailedEditChangesNothing ==
    [][(last'.op = "edit" /\ last'.exc = "ValueError")
       => EntryVal(last'.cls, BookNext(last'.cls), heap', last'.id) = last'.before]_vars

\* C11: edit(id, fields) on an id the collection does not hold fails with
\* KeyError and changes nothing: the map, its order, max_seen_id and the undo
\* log of the book (and the other book and the list objects) are as before.
C11_EditAbsentFails ==
    [][(last'.op = "edit" /\ last'.id \notin DOMAIN Book(last'.cls).data)
       => /\ last'.exc = "KeyError"
          /\ abook' = abook
          /\ nbook' = nbook
          /\ heap' = heap]_vars

\* an edit of an absent id has failed on a book that holds an entry and a
\* logged action
C11_Witness ==
    /\ last.op = "edit"
    /\ last.exc = "KeyError"
    /\ last.id \notin DOMAIN Book(last.cls).data
    /\ Book(last.cls).data # <<>>
    /\ Book(last.cls).undo_stack # <<>>

\* C12: delete(id) on an id the collection holds removes exactly that entry
\* (every other entry, the order of the others and max_seen_id stay), appends
\* exactly one ("delete", id, record) entry holding the entry removed, and
\* returns true; on an id it does not hold it returns false and leaves the
\* book, map and undo log, unchanged.  The other book is never touched.
C12_DeleteRemovesAndLogs ==
    [][last'.op = "delete"
       => /\ last'.exc = NoExc
          /\ \A cls \in Classes \ {last'.cls} : BookNext(cls) = Book(cls)
          /\ IF last'.id \in DOMAIN Book(last'.cls).data
             THEN /\ last'.ok = TRUE
                  /\ DOMAIN BookNext(last'.cls).data
                        = DOMAIN Book(last'.cls).data \ {last'.id}
                  /\ \A k \in DOMAIN BookNext(last'.cls).data :
                        EntryVal(last'.cls, BookNext(last'.cls), heap', k)
                           = EntryVal(last'.cls, Book(last'.cls), heap, k)
                  /\ BookNext(last'.cls).order
                        = SelectSeq(Book(last'.cls).order, LAMBDA k : k # last'.id)
                  /\ BookNext(last'.cls).max_id = Book(last'.cls).max_id
                  /\ BookNext(last'.cls).undo_stack
                        = (IF Len(Book(last'.cls).undo_stack) < MAX_UNDO_STEPS
                           THEN Book(last'.cls).undo_stack
                           ELSE Tail(Book(last'.cls).undo_stack))
                          \o <<UndoEntry("delete", last'.id,
                                         Book(last'.cls).data[last'.id])>>
                  /\ last'.cls = "Note"
                        => /\ heap'[Book("Note").data[last'.id].tags]
                                = heap[Book("Note").data[last'.id].tags]
                           /\ heap'[Book("Note").data[last'.id].contact_ids]
                                = heap[Book("Note").data[last'.id].contact_ids]
             ELSE /\ last'.ok = FALSE
                  /\ BookNext(last'.cls) = Book(last'.cls)
                  /\ heap' = heap]_vars

\* a delete of an id just deleted has returned false, after the delete that
\* removed it from a book that still holds another entry
C12_Witness ==
    /\ last.op = "delete"
    /\ last.ok = FALSE
    /\ last.prev.op = "delete"
    /\ last.prev.ok = TRUE
    /\ last.prev.cls = last.cls
    /\ last.prev.id = last.id
    /\ Book(last.cls).data # <<>>
    /\ Book(last.cls).undo_stack[Len(Book(last.cls).undo_stack)].action = "delete"

\* C13: undo on an empty undo log returns the "nothing to undo" message and
\* raises nothing, and leaves the map, max_seen_id and the (empty) log as
\* they were; so does the undo asked for after every action the bounded log
\* still held has been undone.
C13_UndoOnEmptyLog ==
    [][(last'.op = "undo" /\ Book(last'.cls).undo_stack = <<>>)
       => /\ last'.msg = "nothing"
          /\ last'.exc = NoExc
          /\ abook' = abook
          /\ nbook' = nbook
          /\ heap' = heap
          /\ BookNext(last'.cls).undo_stack = <<>>]_vars

\* more actions were made than the log holds, every entry the log held has
\* been undone, and one more undo was asked for: the book still holds what
\* the forgotten actions left
C13_Witness ==
    /\ last.op = "undo"
    /\ last.msg = "nothing"
    /\ last.prev.op = "undo"
    /\ last.prev.msg # "nothing"
    /\ nops >= 2 * MAX_UNDO_STEPS + 2
    /\ abook.undo_stack = <<>>
    /\ abook.data # <<>>

\* The largest key of a file load has read (0 for no member).
MaxKey(file) ==
    IF file[1].members = <<>> THEN 0
    ELSE CHOOSE n \in {int(file[1].members[i].key)[1] : i \in DOMAIN file[1].members} :
            \A i \in DOMAIN file[1].members : int(file[1].members[i].key)[1] <= n

\* C14: save(f) followed by load(f), on any collection create, edit, delete
\* and undo can reach, yields a collection with the same ids, each record
\* with the same to_dict as before, and max_seen_id the largest id of the
\* file, so that the id of the next create is not held by the collection.
C14_SaveLoadRoundTrip ==
    [][(last.op = "save" /\ last'.op = "load" /\ last'.cls = last.cls)
       => /\ last'.exc = NoExc
          /\ DOMAIN BookNext(last'.cls).data = DOMAIN Book(last'.cls).data
          /\ \A k \in DOMAIN Book(last'.cls).data :
                json_entry(last'.cls, BookNext(last'.cls).data[k], heap')
                   = json_entry(last'.cls, Book(last'.cls).data[k], heap)
          /\ BookNext(last'.cls).max_id = MaxKey(disk[FileOf(last'.cls)])
          /\ BookNext(last'.cls).max_id + 1 \notin DOMAIN BookNext(last'.cls).data]_vars

\* C15: an id create has returned is never returned again by a later create
\* on that collection, also when the collection was saved and loaded in
\* between.
C15_IdsNeverReused ==
    \A cls \in Classes :
        \A i, j \in DOMAIN issued[cls] : i # j => issued[cls][i] # issued[cls][j]

\* C16: load from a path with no file returns a collection with an empty
\* map, an empty undo log and max_seen_id 0, and raises nothing; the first
\* create on it returns id 1.
C16_LoadMissingFile ==
    [][/\ (last'.op = "load" /\ disk[FileOf(last'.cls)] = Nothing)
          => /\ last'.exc = NoExc
             /\ last'.msg = "missing"
             /\ BookNext(last'.cls).data = <<>>
             /\ BookNext(last'.cls).order = <<>>
             /\ BookNext(last'.cls).undo_stack = <<>>
             /\ BookNext(last'.cls).max_id = 0
       /\ (/\ last.op = "load" /\ last.msg = "missing"
           /\ last'.op = "create" /\ last'.cls = last.cls /\ last'.exc = NoExc)
          => /\ last'.id = 1
             /\ DOMAIN BookNext(last'.cls).data = {1}]_vars

\* a book was loaded from a path with no file, and the create after the load
\* returned 1
C16_Witness ==
    /\ last.op = "create"
    /\ last.exc = NoExc
    /\ last.id = 1
    /\ last.prev.op = "load"
    /\ last.prev.cls = last.cls
    /\ last.prev.msg = "missing"
    /\ disk[FileOf(last.cls)] = Nothing
    /\ Book(last.cls).order = <<1>>
    /\ Book(last.cls).max_id = 1

\* The name of the field an entry of the class cannot be made without,
\* besides id.
RequiredField(cls) == IF cls = "Contact" THEN "name" ELSE "text"

\* The file holds a JSON object whose keys are numbers and whose entries
\* have their required fields.
WellFormed(cls, file) ==
    /\ file # Nothing
    /\ file[1].type = "object"
    /\ \A i \in DOMAIN file[1].members :
          /\ int(file[1].members[i].key) # Nothing
          /\ {"id", RequiredField(cls)} \subseteq DOMAIN file[1].members[i].value

\* The date field of the value is there and is not in a format the class
\* reads.
MalformedDate(cls, value) ==
    IF cls = "Contact"
    THEN /\ "birthday" \in DOMAIN value
         /\ value.birthday # Nothing
         /\ value.birthday[1] # <<>>
         /\ parse_birthday(value.birthday[1]) = None
    ELSE /\ "created_at" \in DOMAIN value
         /\ value.created_at # <<>>
         /\ strptime_ts(value.created_at) = Nothing

\* C17: load raises nothing on a file with malformed content (text that is
\* no JSON, JSON that is no mapping, a mapping with a key that is no decimal
\* number, an entry without a required field): it returns a new, empty
\* collection.
C17_LoadMalformedFile ==
    [][(/\ last'.op = "load"
        /\ disk[FileOf(last'.cls)] # Nothing
        /\ ~WellFormed(last'.cls, disk[FileOf(last'.cls)]))
       => /\ last'.exc = NoExc
          /\ BookNext(last'.cls) = EmptyBook]_vars

\* C18: when the file parses and a record has a malformed date field (a
\* note's created_at, a contact's birthday), load does not abort: every
\* record of the file is loaded, the malformed field with its default (the
\* time of loading, no birthday) and the other fields as the file has them.
C18_LoadMalformedDate ==
    [][(/\ last'.op = "load"
        /\ WellFormed(last'.cls, disk[FileOf(last'.cls)])
        /\ \E i \in DOMAIN disk[FileOf(last'.cls)][1].members :
              MalformedDate(last'.cls, disk[FileOf(last'.cls)][1].members[i].value))
       => /\ last'.exc = NoExc
          /\ DOMAIN BookNext(last'.cls).data
                = {int(disk[FileOf(last'.cls)][1].members[i].key)[1] :
                     i \in DOMAIN disk[FileOf(last'.cls)][1].members}
          /\ \A i \in DOMAIN disk[FileOf(last'.cls)][1].members :
                \E m \in {disk[FileOf(last'.cls)][1].members[i]} :
                   \E e \in {BookNext(last'.cls).data[int(m.key)[1]]} :
                      /\ e.id = m.value.id
                      /\ e[RequiredField(last'.cls)] = m.value[RequiredField(last'.cls)]
                      /\ MalformedDate(last'.cls, m.value)
                            => IF last'.cls = "Contact" THEN e.birthday = None
                               ELSE e.created_at = last'.args.now]_vars

\* C19 as stated: create_note_for_contact for a contact id the address book
\* does not hold fails with the not-found error and leaves the notebook's
\* map, max_seen_id and undo log unchanged; for an id it holds it creates
\* exactly one note whose contact_ids is [contact_id] and returns its id.
C19_CreateNoteForContact ==
    [][last'.op = "create-note-for-contact"
       => /\ abook' = abook
          /\ IF last'.args.contact_id \notin DOMAIN abook.data
             THEN /\ last'.exc = "KeyError"
                  /\ nbook' = nbook
                  /\ heap' = heap
             ELSE /\ last'.exc = NoExc
                  /\ last'.id \notin DOMAIN nbook.data
                  /\ DOMAIN nbook'.data = DOMAIN nbook.data \cup {last'.id}
                  /\ heap'[nbook'.data[last'.id].contact_ids]
                        = <<last'.args.contact_id>>
                  /\ \A k \in DOMAIN nbook.data :
                        EntryVal("Note", nbook', heap', k)
                           = EntryVal("Note", nbook, heap, k)]_vars

\* C19 with the case the statement leaves out: for an id the address book
\* holds and a text that is not blank, exactly one note is created (next id,
\* the text and tags given, contact_ids [contact_id], one "add" entry
\* logged) and its id returned; for a blank text the call fails with
\* ValueError and the notebook is unchanged.  For an id not held it fails
\* with KeyError and the notebook is unchanged.
C19_CreateNoteForContactValidText ==
    [][last'.op = "create-note-for-contact"
       => /\ abook' = abook
          /\ IF last'.args.contact_id \notin DOMAIN abook.data
             THEN /\ last'.exc = "KeyError"
                  /\ nbook' = nbook
                  /\ heap' = heap
             ELSE IF strip(last'.args.text) = <<>>
             THEN /\ last'.exc = "ValueError"
                  /\ nbook' = nbook
                  /\ heap' = heap
             ELSE /\ last'.exc = NoExc
                  /\ last'.id = nbook.max_id + 1
                  /\ last'.id \notin DOMAIN nbook.data
                  /\ DOMAIN nbook'.data = DOMAIN nbook.data \cup {last'.id}
                  /\ nbook'.max_id = last'.id
                  /\ nbook'.data[last'.id].id = last'.id
                  /\ nbook'.data[last'.id].text = last'.args.text
                  /\ heap'[nbook'.data[last'.id].tags] = last'.args.tags
                  /\ heap'[nbook'.data[last'.id].contact_ids]
                        = <<last'.args.contact_id>>
                  /\ nbook'.undo_stack
                        = Append(nbook.undo_stack, UndoEntry("add", last'.id, NoObj))
                  /\ \A k \in DOMAIN nbook.data :
                        EntryVal("Note", nbook', heap', k)
                           = EntryVal("Note", nbook, heap, k)]_vars

\* a second note was created for a contact the address book holds
C19_Witness ==
    /\ last.op = "create-note-for-contact"
    /\ last.exc = NoExc
    /\ last.args.contact_id \in DOMAIN abook.data
    /\ last.id \in DOMAIN nbook.data
    /\ heap[nbook.data[last.id].contact_ids] = <<last.args.contact_id>>
    /\ Cardinality(DOMAIN nbook.data) = 2

\* C20: the two collections are independent.  A create, edit, delete or
\* undo on the address book leaves the notebook (map, key order,
\* max_seen_id, undo log, and the list objects of its notes) unchanged, and
\* one on the notebook leaves the address book unchanged; the id a create
\* returns is one more than the max_seen_id of its own collection, whatever
\* the other holds, so a Contact and a Note can have the same id.
C20_BooksIndependent ==
    [][last'.op \in {"create", "edit", "delete", "undo"}
       => /\ last'.cls = "Contact" => nbook' = nbook /\ heap' = heap
          /\ last'.cls = "Note" => abook' = abook
          /\ (last'.op = "create" /\ last'.exc = NoExc)
                => /\ last'.id = Book(last'.cls).max_id + 1
                   /\ BookNext(last'.cls).max_id = last'.id]_vars

\* a note was given id 1 while the address book, which had handed out ids 1
\* and 2, holds a contact with id 1
C20_Witness ==
    /\ last.op = "create"
    /\ last.cls = "Note"
    /\ last.exc = NoExc
    /\ last.id = 1
    /\ abook.max_id = 2
    /\ 1 \in DOMAIN abook.data
    /\ 1 \in DOMAIN nbook.data
    /\ abook.data[1].id = nbook.data[1].id

\* C21: in every state create, edit, delete and undo on the notebook can
\* reach, every note of the map has a text that is not empty after trimming,
\* and an edit whose fields set the text to an empty or whitespace-only
\* string is rejected with a validation error and changes nothing.
C21_NoteTextNeverBlank ==
    [][/\ \A k \in DOMAIN nbook'.data : strip(nbook'.data[k].text) # <<>>
       /\ (/\ last'.op = "edit"
           /\ last'.cls = "Note"
           /\ last'.id \in DOMAIN nbook.data
           /\ "text" \in last'.args.has
           /\ strip(last'.args.text) = <<>>)
          => /\ last'.exc = "ValueError"
             /\ nbook' = nbook]_vars

\* C22: the record kept in an ("edit", id, clone) undo entry is a deep copy:
\* as long as the entry stays in the notebook's undo log, no command changes
\* the field values of the clone (pin-note appending to the live note's
\* tags, Detach removing an id from its contact_ids), so the undo of the edit
\* puts back the values the note had just before the edit.
C22_EditCloneIsDeepCopy ==
    [][\A i \in DOMAIN nbook.undo_stack \cap DOMAIN nbook'.undo_stack :
          (nbook.undo_stack[i].action = "edit" /\ nbook'.undo_stack[i].action = "edit")
          => NoteVal(nbook'.undo_stack[i].old, heap')
                = NoteVal(nbook.undo_stack[i].old, heap)]_vars

\* The place of key k in the order of a dict.
Pos(order, k) == CHOOSE p \in DOMAIN order : order[p] = k

\* C23: find(query) returns exactly the records of the collection for which
\* matches(query) is true, each once, in the iteration order of the map, and
\* changes neither book (map, max_seen_id, undo log).
C23_FindReturnsMatches ==
    [][last'.op = "find"
       => /\ abook' = abook
          /\ nbook' = nbook
          /\ heap' = heap
          /\ \A i \in DOMAIN last'.args.found :
                /\ last'.args.found[i].id \in DOMAIN Book(last'.cls).data
                /\ last'.args.found[i] = Book(last'.cls).data[last'.args.found[i].id]
                /\ entry_matches(last'.cls, last'.args.found[i], heap, last'.args.query)
          /\ \A k \in DOMAIN Book(last'.cls).data :
                entry_matches(last'.cls, Book(last'.cls).data[k], heap, last'.args.query)
                => Cardinality({i \in DOMAIN last'.args.found :
                                   last'.args.found[i].id = k}) = 1
          /\ \A i, j \in DOMAIN last'.args.found :
                i < j => Pos(Book(last'.cls).order, last'.args.found[i].id)
                            < Pos(Book(last'.cls).order, last'.args.found[j].id)]_vars

\* a find has returned two entries of a book whose order is not the order of
\* the ids, and left out none
C23_Witness ==
    /\ last.op = "find"
    /\ Len(last.args.found) = 2
    /\ Book(last.cls).order = <<2, 1>>
    /\ last.args.found[1].id = 2
    /\ last.args.found[2].id = 1
    /\ last.args.query # <<>>

\* The searchable fields of a record, as text: a contact's name, phones,
\* emails and birthday (DD.MM.YYYY), a note's text and tags.
SearchableFields(cls, e, h) ==
    IF cls = "Contact"
    THEN {e.name} \cup {e.phones[i] : i \in DOMAIN e.phones}
                  \cup {e.emails[i] : i \in DOMAIN e.emails}
                  \cup (IF HasBirthday(e) THEN {strftime_dmy(e.birthday)} ELSE {})
    ELSE {e.text} \cup {h[e.tags][i] : i \in DOMAIN h[e.tags]}

\* C24: matches(query) is true exactly when the query, compared without regard
\* to case, is a substring of one of the record's searchable fields: a find
\* returns a record of the book if and only if the query is such a substring.
C24_MatchesIsSubstring ==
    last.op = "find"
    => \A k \in DOMAIN Book(last.cls).data :
          (\E i \in DOMAIN last.args.found : last.args.found[i].id = k)
          <=> \E f \in SearchableFields(last.cls, Book(last.cls).data[k], heap) :
                  Contains(lower(last.args.query), lower(f))

\* C25: every phone stored on a contact of the address book is in the
\* canonical form, '+380' followed by 9 digits.
C25_PhonesCanonical ==
    \A k \in DOMAIN abook.data :
        \A i \in DOMAIN abook.data[k].phones : IsIntlPhone(abook.data[k].phones[i])

\* The keyword arguments of a create are valid: the formats of section
\* "Identity & Validation" hold for each field given.
ValidFields(cls, kw) ==
    IF cls = "Contact"
    THEN /\ strip(kw.name) # <<>>
         /\ \A i \in DOMAIN kw.phones : validate_phone(kw.phones[i]) # <<>>
         /\ \A i \in DOMAIN kw.emails : validate_email(kw.emails[i])
         /\ "birthday" \in kw.has => parse_birthday(kw.birthday) # None
    ELSE strip(kw.text) # <<>>

\* C26: a record created with valid fields round-trips through its serialized
\* form: from_dict(to_dict(r)) raises nothing and has every field equal to
\* r's, a note's created_at and a contact's birthday included.
C26_RoundTripLossless ==
    (last.op = "create" /\ last.exc = NoExc /\ ValidFields(last.cls, last.args))
    => IF last.cls = "Contact"
       THEN Contact_from_dict(Contact_to_dict(abook.data[last.id]))
               = [exc |-> NoExc, obj |-> abook.data[last.id]]
       ELSE \A now \in NowValues :
               Note_from_dict(Note_to_dict(nbook.data[last.id]), now)
                  = [exc |-> NoExc, obj |-> nbook.data[last.id]]

\* C27: days_to_birthday and age return None for a contact without a
\* birthday; for a contact with one (29 February included) and any current
\* date both return an integer without raising, and days_to_birthday is in
\* 0..366.
C27_DerivedValuesDefined ==
    last.op \in {"days_to_birthday", "age"}
    => IF ~HasBirthday(abook.data[last.id])
       THEN last.exc = NoExc /\ last.args.ret = Nothing
       ELSE /\ last.exc = NoExc
            /\ last.args.ret # Nothing
            /\ last.args.ret[1] \in Int
            /\ last.op = "days_to_birthday" => last.args.ret[1] \in 0..366

\* C28: after every command that changed a collection the state in memory is
\* in the session files contacts_session.pkl and notes_session.pkl, and a
\* session file is removed only by the command exit or by declining the
\* restore at the start.
C28_SessionFilesWritten ==
    [][/\ (/\ last'.op \notin {"start", "exit", "crash"}
           /\ (abook' # abook \/ nbook' # nbook \/ heap' # heap))
          => /\ disk'.contacts_session = save_session("Contact", abook', heap')
             /\ disk'.notes_session = save_session("Note", nbook', heap')
       /\ (\E cls \in Classes : /\ disk[SessionOf(cls)] # Nothing
                                /\ disk'[SessionOf(cls)] = Nothing)
          => \/ last'.op = "exit"
             \/ last'.op = "start" /\ ~last'.restored]_vars

\* Reading the session file of a book fails: there is no file, pickle
\* rejects it, a key of the dict is missing, or an entry of raw raises in
\* from_dict or int.
SessionUnreadable(cls, file) ==
    \/ file = Nothing
    \/ file[1].type # "session"
    \/ file[1].max_id = Nothing
    \/ \E i \in DOMAIN file[1].members :
          \/ int(file[1].members[i].key) = Nothing
          \/ \E now \in CommandClock :
                load_entry(cls, file[1].members[i].value, <<>>, now).exc # NoExc

\* C29: load_from_session_files returns an empty collection (empty map,
\* max_seen_id 0) for a session file that is missing or corrupted, also when
\* reading fails part-way through the entries.
C29_SessionLoadAllOrNothing ==
    (last.op = "start" /\ last.restored)
    => \A cls \in Classes :
          SessionUnreadable(cls, disk[SessionOf(cls)])
          => Book(cls).data = <<>> /\ Book(cls).max_id = 0

\* C30: in delete-contact, when the contact has linked notes and the answer
\* to the prompt (stripped, in lower case) is neither 'd' nor 'k' nor empty,
\* the operation is cancelled: the contact stays in the address book, no note
\* is deleted or changed, no undo entry is added in either book and nothing
\* is saved.
C30_DeleteContactCancelled ==
    [][(/\ last'.op = "delete-contact"
        /\ last'.linked # <<>>
        /\ last'.reply # Nothing
        /\ last'.reply[1] \notin {<<"d">>, <<"k">>, <<>>})
       => /\ last'.id \in DOMAIN abook'.data
          /\ abook' = abook
          /\ nbook' = nbook
          /\ heap' = heap
          /\ disk' = disk]_vars

\* delete-contact was answered 'x' for a contact with a linked note: the
\* contact and the note are there, the note still names the contact
C30_Witness ==
    /\ last.op = "delete-contact"
    /\ last.linked # <<>>
    /\ last.reply = Some(<<"x">>)
    /\ last.msg = "cancelled"
    /\ last.id \in DOMAIN abook.data
    /\ \A i \in DOMAIN last.linked :
          /\ last.linked[i] \in DOMAIN nbook.data
          /\ InList(last.id, heap[nbook.data[last.linked[i]].contact_ids])

\* C31: in every state create, edit, delete and undo reach from an empty
\* collection, each key k of the map stores a record whose id is k, and
\* every delete and edit entry of the undo log saves a record whose id is
\* the id the entry names.
C31_KeysAreIds ==
    \A cls \in Classes :
        /\ \A k \in DOMAIN Book(cls).data : Book(cls).data[k].id = k
        /\ \A i \in DOMAIN Book(cls).undo_stack :
              Book(cls).undo_stack[i].action \in {"delete", "edit"}
              => Book(cls).undo_stack[i].old.id = Book(cls).undo_stack[i].id

\* a book holds a record, and its undo log an edit entry and a delete entry
C31_Witness ==
    \E cls \in Classes :
        /\ DOMAIN Book(cls).data # {}
        /\ \E i, j \in DOMAIN Book(cls).undo_stack :
              /\ Book(cls).undo_stack[i].action = "edit"
              /\ Book(cls).undo_stack[j].action = "delete"
              /\ Book(cls).undo_stack[j].old.id = Book(cls).undo_stack[j].id
              /\ Book(cls).undo_stack[j].id \notin DOMAIN Book(cls).data

\* C32: in every state load, create, edit, delete and undo reach, max_seen_id
\* is at least every id of the map and every id an entry of the undo log
\* names, and no operation decreases max_seen_id: no create, edit, delete or
\* undo, and no load of the file that holds the collection as it is.
C32_MaxIdMonotonic ==
    [][\A cls \in Classes :
          /\ \A k \in DOMAIN BookNext(cls).data : k <= BookNext(cls).max_id
          /\ \A i \in DOMAIN BookNext(cls).undo_stack :
                BookNext(cls).undo_stack[i].id <= BookNext(cls).max_id
          /\ (last'.op = "load" => disk[FileOf(cls)] = save(cls, Book(cls), heap))
             => BookNext(cls).max_id >= Book(cls).max_id]_vars

\* C33: when records enter a collection only through create, an id that a
\* "delete" entry of the undo log names is absent from the map, the log holds
\* at most one "delete" entry per id, and when the top entry of the log is an
\* "edit" entry its id is present in the map.
C33_DeleteEntriesAbsent ==
    \A cls \in Classes :
        /\ \A i \in DOMAIN Book(cls).undo_stack :
              Book(cls).undo_stack[i].action = "delete"
              => /\ Book(cls).undo_stack[i].id \notin DOMAIN Book(cls).data
                 /\ \A j \in DOMAIN Book(cls).undo_stack :
                       /\ Book(cls).undo_stack[j].action = "delete"
                       /\ Book(cls).undo_stack[j].id = Book(cls).undo_stack[i].id
                       => j = i
        /\ /\ Book(cls).undo_stack # <<>>
           /\ Book(cls).undo_stack[Len(Book(cls).undo_stack)].action = "edit"
           => TopId(Book(cls)) \in DOMAIN Book(cls).data

\* The log holds a "delete" entry of a record that is gone, and on top of
\* it an "edit" entry of another record.
C33_Witness ==
    \E cls \in Classes :
        /\ last.op = "edit"
        /\ Book(cls).undo_stack # <<>>
        /\ Book(cls).undo_stack[Len(Book(cls).undo_stack)].action = "edit"
        /\ TopId(Book(cls)) \in DOMAIN Book(cls).data
        /\ \E i \in DOMAIN Book(cls).undo_stack :
              /\ Book(cls).undo_stack[i].action = "delete"
              /\ Book(cls).undo_stack[i].id \notin DOMAIN Book(cls).data

\* C34: undo is last-in-first-out and inverts the logged calls.  Each undo
\* returns the map to the ids and the serialized records it held before the
\* call whose entry it pops, and leaves max_seen_id alone; so after n
\* successful create, edit and delete calls, for every n up to MAX_UNDO_STEPS,
\* n undos in a row return the map to what it was before those n calls.
C34_UndoInverts ==
    [][last'.op = "undo"
       => /\ Serialized(last'.cls, BookNext(last'.cls), heap') = last'.args.expected
          /\ BookNext(last'.cls).max_id = Book(last'.cls).max_id
          /\ Len(last'.snaps) = Len(BookNext(last'.cls).undo_stack)]_vars

\* MAX_UNDO_STEPS undos in a row have emptied a log that was full: the map
\* is empty as it was before the calls, and max_seen_id is the last id.
C34_Witness ==
    \E cls \in Classes :
        /\ last.op = "undo"
        /\ last.cls = cls
        /\ last.undone = MAX_UNDO_STEPS
        /\ Book(cls).undo_stack = <<>>
        /\ Book(cls).data = <<>>
        /\ Book(cls).max_id > 1

\* The commands that change a field of a stored record.
FieldCommands == {"edit-contact", "edit-note", "pin-note", "delete-contact"}

\* The command that led to the next state changed the serialized form of
\* the record id of cls, which it left in the map.
FieldChanged(cls, id) ==
    /\ id \in DOMAIN Book(cls).data
    /\ id \in DOMAIN BookNext(cls).data
    /\ json_entry(cls, BookNext(cls).data[id], heap')
           # json_entry(cls, Book(cls).data[id], heap)

\* C35: every command that changes a field of a stored record (edit-contact
\* and edit-note with and without arguments, pin-note, delete-contact when
\* it detaches the notes) appends an entry to the undo log of the record's
\* collection, and an undo right after it gives the record the serialized
\* field values it had before the command.
C35_FieldChangeLogged ==
    [][\A cls \in Classes : \A id \in 1..MaxId :
          last'.op \in FieldCommands /\ FieldChanged(cls, id)
          => /\ BookNext(cls).undo_stack # <<>>
             /\ BookNext(cls).undo_stack
                    = deque_append(Book(cls).undo_stack,
                                   BookNext(cls).undo_stack[Len(BookNext(cls).undo_stack)])
             /\ id \in DOMAIN undo(BookNext(cls)).book.data
             /\ json_entry(cls, undo(BookNext(cls)).book.data[id], heap')
                    = json_entry(cls, Book(cls).data[id], heap)]_vars

\* The words of a command line that parse_contact_input takes for the name.
NameParts(tokens) ==
    scan_tokens(tokens, [phone |-> <<>>, emails |-> <<>>, name_parts |-> <<>>,
                         birthday |-> <<>>]).name_parts

\* C37: edit-contact with arguments changes only the fields the command line
\* carries a value for: when the words after the id hold no name part (a
\* phone only, say), the name of the contact is the same after the command
\* as before.
C37_InlineEditKeepsName ==
    [][\A args \in EditContactArgs, replies \in EditContactReplies,
          now \in CommandClock :
          /\ last'.op = "edit-contact"
          /\ last'.exc = NoExc
          /\ args # <<>>
          /\ NameParts(Tail(args)) = <<>>
          /\ abook' = edit_contact(args, abook, nbook, heap, disk, replies, now).abook
          => abook'.data[last'.id].name = abook.data[last'.id].name]_vars

\* C36: a note that create_note_for_contact linked to a contact never comes
\* to reference another contact.  While contacts are created, deleted and
\* restored by undo and the address book is saved and loaded back, a contact
\* never gets an id that a note already holds in contact_ids: the id denotes
\* the contact the note was created for or no contact, never one created
\* later.
C36_NoLaterContact ==
    [][/\ last'.op = "create"
       /\ last'.cls = "Contact"
       /\ last'.ok
       => \A k \in DOMAIN nbook.data :
              ~InList(last'.id, heap[nbook.data[k].contact_ids])]_vars

====
